---- MODULE Spec2Model ----
(***************************************************************************)
(* Model of thoth-storages' result adapters (ResultStorageBase and its     *)
(* subtypes) on top of an S3-compatible blob store.                        *)
(*                                                                         *)
(* The adapter code is thoth/storages/result_base.py.  The Ceph adapter it *)
(* delegates to (thoth/storages/ceph.py), the result schema                *)
(* (result_schema.py) and the exception types are not part of the sources  *)
(* at hand; they are modelled from the specification's text.               *)
(***************************************************************************)
EXTENDS Naturals, Sequences, FiniteSets, TLC

(***************************************************************************)
(* Bounds of the model.                                                    *)
(***************************************************************************)
\* Number of distinct metadata.hostname values (document ids) in play.
MaxHostnames == 2

\* Number of callers that run store_document concurrently.
MaxCallers == 2

\* Longest subject (a build log, as bytes) handed to the cache.
MaxSubjectLen == 2

\* Most rows a table of the relational database grows to.
MaxRows == 2

\* Most rows the graph tables hold together.
MaxGraphRows == 4

HostnamePool == <<"pod-a", "pod-b", "pod-c", "pod-d">>

Hostnames == {HostnamePool[i] : i \in 1..MaxHostnames}

\* Values of a document's "result" entry: two are enough to have two
\* different documents that derive the same id.
ResultValues == {"result-1", "result-2"}

(***************************************************************************)
(* Documents: JSON objects, modelled as functions from keys to values.     *)
(* A document may lack "metadata", may lack "result", and its metadata may *)
(* lack "hostname".                                                        *)
(***************************************************************************)
EmptyObject == [k \in {} |-> ""]

MetadataValues == {EmptyObject} \cup {[hostname |-> h] : h \in Hostnames}

Documents ==
    {EmptyObject}
    \cup {[metadata |-> m] : m \in MetadataValues}
    \cup {[result |-> r] : r \in ResultValues}
    \cup {[metadata |-> m, result |-> r] : m \in MetadataValues, r \in ResultValues}

(***************************************************************************)
(* Subjects of the build-log cache and their records.  A subject is a      *)
(* sequence of bytes; its id is its digest, computed by the producer.  The *)
(* digest here is a small one with collisions (the sum of the bytes), so   *)
(* that nothing rests on different subjects having different digests.      *)
(***************************************************************************)
ByteValues == {0, 1}

Subjects == UNION {[1..n -> ByteValues] : n \in 1..MaxSubjectLen}

DigestPool == <<"sha-0", "sha-1", "sha-2", "sha-3", "sha-4">>

RECURSIVE SumOfBytes(_)
SumOfBytes(bytes) ==
    IF bytes = << >> THEN 0 ELSE Head(bytes) + SumOfBytes(Tail(bytes))

sha256(bytes) == DigestPool[SumOfBytes(bytes) + 1]

SubjectHashes == {sha256(bytes) : bytes \in Subjects}

References == {"analysis-41", "analysis-42"}

\* The records handed to the cache: the fixed shape, and records that lack
\* one of its two entries.
CacheRecords ==
    {[subject_hash |-> h, result_reference |-> r] : h \in SubjectHashes, r \in References}
    \cup {[subject_hash |-> h] : h \in SubjectHashes}
    \cup {[result_reference |-> r] : r \in References}

\* The shape the cache requires of a record; the value is the set of
\* missing entries.
CACHE_SCHEMA(record) ==
    {k \in {"subject_hash", "result_reference"} : k \notin DOMAIN record}

\* Python's None, where a call has no document to show.
None == [py |-> "None"]

\* Python's None, among values that are otherwise strings.
PyNone == "<None>"

(***************************************************************************)
(* Adapter subtypes.  Each instance is one constructed adapter.            *)
(***************************************************************************)
Adapters == {"BuildLogsAnalysesCacheStore", "OtherResultsStore"}

\* The subtypes that are caches (subclasses of CephCache).
Caches == {"BuildLogsAnalysesCacheStore"}

\* The classes an adapter may be constructed from: the subtypes, and the
\* base class itself.
Classes == Adapters \cup {"ResultStorageBase"}

\* The RESULT_TYPE class attribute of each class; the base class leaves it
\* None.
RESULT_TYPE(cls) ==
    IF cls = "BuildLogsAnalysesCacheStore"
    THEN "buildlogs-analysis-cache"
    ELSE IF cls = "ResultStorageBase"
    THEN PyNone
    ELSE "other-results"

\* Faulty variant: every adapter's Ceph handle is created with the same prefix.
CephPrefixShared(self) == "results"

\* __init__: the Ceph handle of an adapter is created with the adapter's
\* RESULT_TYPE as its prefix.
CephPrefix(self) == RESULT_TYPE(self)

(***************************************************************************)
(* The result schema: "metadata" and "result" are required.  The value is  *)
(* the validation failure: the set of required keys that are missing.      *)
(***************************************************************************)
RESULT_SCHEMA(document) == {k \in {"metadata", "result"} : k \notin DOMAIN document}

(***************************************************************************)
(* get_document_id: document['metadata']['hostname']; a missing key raises *)
(* KeyError.                                                               *)
(***************************************************************************)
\* Faulty variant: the id depends on the subtype that derives it.
get_document_id_per_class(cls, document) ==
    IF "metadata" \in DOMAIN document /\ "hostname" \in DOMAIN document["metadata"]
    THEN [error |-> "none",
          id |-> RESULT_TYPE(cls) \o "-" \o document["metadata"]["hostname"]]
    ELSE [error |-> "KeyError", id |-> ""]

\* Faulty variant: the id is the hostname of the machine that stores (the same for
\* every document), not the document's.
get_document_id_of_this_host(cls, document) ==
    IF "metadata" \in DOMAIN document /\ "hostname" \in DOMAIN document["metadata"]
    THEN [error |-> "none", id |-> HostnamePool[1]]
    ELSE [error |-> "KeyError", id |-> ""]

\* Faulty variant: a lenient lookup (dict.get) that yields None for a missing key.
get_document_id_lenient(cls, document) ==
    IF "metadata" \in DOMAIN document /\ "hostname" \in DOMAIN document["metadata"]
    THEN [error |-> "none", id |-> document["metadata"]["hostname"]]
    ELSE [error |-> "none", id |-> "None"]

get_document_id(cls, document) ==
    IF "metadata" \in DOMAIN document /\ "hostname" \in DOMAIN document["metadata"]
    THEN [error |-> "none", id |-> document["metadata"]["hostname"]]
    ELSE [error |-> "KeyError", id |-> ""]

(***************************************************************************)
(* The blob store behind the Ceph adapter.                                 *)
(***************************************************************************)
\* json.dumps with sorted keys: the document as text, a sequence of
\* <<path, value>> entries.
dumps(document) ==
    LET meta == IF "metadata" \notin DOMAIN document THEN << >>
                ELSE IF "hostname" \in DOMAIN document["metadata"]
                     THEN << <<"metadata.hostname", document["metadata"]["hostname"]>> >>
                     ELSE << <<"metadata", "{}">> >>
        res  == IF "result" \in DOMAIN document
                THEN << <<"result", document["result"]>> >>
                ELSE << >>
        flat(k) == IF k \in DOMAIN document THEN << <<k, document[k]>> >> ELSE << >>
    IN meta \o res \o flat("result_reference") \o flat("subject_hash")

\* json.loads: the document a text stands for.
loads(text) ==
    LET paths == {text[i][1] : i \in DOMAIN text}
        value(p) == text[CHOOSE i \in DOMAIN text : text[i][1] = p][2]
        meta == IF "metadata.hostname" \in paths
                THEN [hostname |-> value("metadata.hostname")]
                ELSE EmptyObject
        keys == (IF "metadata.hostname" \in paths \/ "metadata" \in paths
                 THEN {"metadata"} ELSE {})
                \cup (paths \cap {"result", "result_reference", "subject_hash"})
    IN [k \in keys |-> IF k = "metadata" THEN meta ELSE value(k)]

\* The key of a document in the bucket: the adapter's prefix, then the id.
ObjectKey(prefix, document_id) == prefix \o "/" \o document_id

(***************************************************************************)
(* State.                                                                  *)
(*   objects    the bucket: a set of [key, body] objects                   *)
(*   connected  per adapter, whether its Ceph handle holds a session       *)
(*   last       the most recent call: its arguments, the requests it sent  *)
(*              to the blob store, what it returned or raised, and (for    *)
(*              the record) the documents a write of it replaced           *)
(*   derived0   for the record: what get_document_id yields for each       *)
(*              document in the initial state                              *)
(*   calls      per concurrent caller, the store_document call it is in    *)
(*              and how far that call has got (used where callers run      *)
(*              concurrently; otherwise every caller is idle)              *)
(*   db         the relational database: the rows of its tables and, per   *)
(*              database session, the get_or_create it is in               *)
(*   graph      the rows of the graph tables that reference each other by  *)
(*              foreign keys, and the most recent statement on them        *)
(*   alembic    the indexes of the database and the migration that runs    *)
(*   report     the inspection document last handed to a performance       *)
(*              indicator's create_from_report, and what came of it        *)
(*   instances  per adapter class, the instance constructed from it        *)
(***************************************************************************)
VARIABLES objects, connected, last, derived0, calls, db,
          graph, alembic, report, instances

vars == <<objects, connected, last, derived0, calls, db,
          graph, alembic, report, instances>>

DocumentIds == Hostnames

(***************************************************************************)
(* The relational schema (graph/models.py).  A column value is a string or *)
(* NULL; the key columns of a table are those of its UniqueConstraint.     *)
(***************************************************************************)
NULL == "<NULL>"

\* The tables, with the columns of their UniqueConstraint in its order.
UniqueConstraint ==
    [python_package_version |->
        <<"package_name", "package_version", "python_package_index_id",
          "os_name", "os_version", "python_version">>,
     python_package_version_entity |->
        <<"package_name", "package_version", "python_package_index_id">>]

\* Of those columns, the ones declared nullable=True.
Nullable ==
    [python_package_version |-> {"package_version", "python_package_index_id"},
     python_package_version_entity |-> {"package_version", "python_package_index_id"}]

\* The values a column takes in the model.
ColumnValues(table, column) ==
    LET given == CASE column = "package_name" -> {"flask"}
                   [] column = "package_version" -> {"1.0"}
                   [] column = "python_package_index_id" -> {"1"}
                   [] column = "os_name" -> {"fedora"}
                   [] column = "os_version" -> {"31"}
                   [] column = "python_version" -> {"3.7", "3.8"}
    IN given \cup (IF column \in Nullable[table] THEN {NULL} ELSE {})

KeyColumns(table) == {UniqueConstraint[table][i] : i \in DOMAIN UniqueConstraint[table]}

\* The column values a get_or_create of the table is called with.
Keys(table) ==
    IF table = "python_package_version"
    THEN [package_name : ColumnValues(table, "package_name"),
          package_version : ColumnValues(table, "package_version"),
          python_package_index_id : ColumnValues(table, "python_package_index_id"),
          os_name : ColumnValues(table, "os_name"),
          os_version : ColumnValues(table, "os_version"),
          python_version : ColumnValues(table, "python_version")]
    ELSE [package_name : ColumnValues(table, "package_name"),
          package_version : ColumnValues(table, "package_version"),
          python_package_index_id : ColumnValues(table, "python_package_index_id")]

Tables == DOMAIN UniqueConstraint

Sessions == {"session-1", "session-2"}

\* A session that is in no get_or_create; `id` and `existed` are what its
\* last get_or_create returned.
NoWork == [pc |-> "idle", table |-> "", key |-> << >>, id |-> 0, existed |-> FALSE]

EmptyDatabase ==
    [rows |-> [t \in Tables |-> {}], sessions |-> [s \in Sessions |-> NoWork]]

(***************************************************************************)
(* The graph tables (graph/models.py, graph/models_performance.py) that    *)
(* reference each other.  A row is a record of its id and its foreign-key  *)
(* columns; ids are handed out in order (autoincrement).                   *)
(***************************************************************************)
IdPool == <<"1", "2", "3", "4">>

RowIds == {IdPool[i] : i \in 1..MaxRows}

\* The ForeignKey columns: the table and column that refer, the table
\* referred to (by its id), the ondelete rule ("NO ACTION" where the
\* column declares none) and whether the column may be NULL.
ForeignKeys ==
    {[table |-> "python_package_version", column |-> "entity_id",
      parent |-> "python_package_version_entity", ondelete |-> "CASCADE",
      nullable |-> FALSE],
     [table |-> "depends_on", column |-> "entity_id",
      parent |-> "python_package_version_entity", ondelete |-> "CASCADE",
      nullable |-> FALSE],
     [table |-> "depends_on", column |-> "version_id",
      parent |-> "python_package_version", ondelete |-> "CASCADE",
      nullable |-> FALSE],
     [table |-> "inspection_run", column |-> "build_software_environment_id",
      parent |-> "software_environment", ondelete |-> "CASCADE",
      nullable |-> TRUE],
     [table |-> "inspection_run", column |-> "run_software_environment_id",
      parent |-> "software_environment", ondelete |-> "CASCADE",
      nullable |-> TRUE],
     [table |-> "pi_matmul", column |-> "inspection_run_id",
      parent |-> "inspection_run", ondelete |-> "NO ACTION",
      nullable |-> FALSE]}

GraphTables ==
    {fk.table : fk \in ForeignKeys} \cup {fk.parent : fk \in ForeignKeys}

\* No statement yet.
NoStatement == [op |-> "none", table |-> "", id |-> "", error |-> "none"]

EmptyGraph == [rows |-> [t \in GraphTables |-> {}], statement |-> NoStatement]

(***************************************************************************)
(* The migrations (data/alembic/versions).  An index is its name, its      *)
(* table and its columns in order; a migration is a revision with the      *)
(* operations of its upgrade() and of its downgrade(), in order.           *)
(***************************************************************************)
CreateIndex(name, table, columns) ==
    [op |-> "create_index", name |-> name, table |-> table, columns |-> columns]

DropIndex(name, table) ==
    [op |-> "drop_index", name |-> name, table |-> table, columns |-> << >>]

\* Faulty variant: the index is created under another name than the one
\* downgrade() drops.
upgrade_79e1d320db3d_other_name ==
    << CreateIndex("depends_on_idx_version_id", "depends_on", <<"version_id">>) >>

upgrade_79e1d320db3d ==
    << CreateIndex("depends_on_version_id_idx", "depends_on", <<"version_id">>) >>

downgrade_79e1d320db3d ==
    << DropIndex("depends_on_version_id_idx", "depends_on") >>

upgrade_b91c11e75551 ==
    << CreateIndex("python_package_version_index_idx_00", "python_package_version",
                   <<"package_name", "package_version">>),
       DropIndex("python_package_version_index_idx_10", "python_package_version"),
       CreateIndex("python_package_version_index_idx_10", "python_package_version",
                   <<"package_name", "package_version", "os_name">>),
       DropIndex("python_package_version_index_idx_11", "python_package_version"),
       CreateIndex("python_package_version_index_idx_11", "python_package_version",
                   <<"package_name", "package_version", "os_version">>),
       DropIndex("python_package_version_index_idx_12", "python_package_version"),
       CreateIndex("python_package_version_index_idx_12", "python_package_version",
                   <<"package_name", "package_version", "python_version">>),
       DropIndex("python_package_version_index_idx_20", "python_package_version"),
       CreateIndex("python_package_version_index_idx_20", "python_package_version",
                   <<"package_name", "package_version", "os_name", "os_version">>),
       DropIndex("python_package_version_index_idx_21", "python_package_version"),
       CreateIndex("python_package_version_index_idx_21", "python_package_version",
                   <<"package_name", "package_version", "os_name", "python_version">>),
       DropIndex("python_package_version_index_idx_22", "python_package_version"),
       CreateIndex("python_package_version_index_idx_22", "python_package_version",
                   <<"package_name", "package_version", "os_version", "python_version">>),
       DropIndex("python_package_version_index_idx_30", "python_package_version"),
       CreateIndex("python_package_version_index_idx_30", "python_package_version",
                   <<"package_name", "package_version", "os_name", "os_version", "python_version">>),
       DropIndex("python_package_version_idx", "python_package_version"),
       DropIndex("python_package_version_index_idx_13", "python_package_version"),
       DropIndex("python_package_version_index_idx_23", "python_package_version"),
       DropIndex("python_package_version_index_idx_24", "python_package_version"),
       DropIndex("python_package_version_index_idx_25", "python_package_version"),
       DropIndex("python_package_version_index_idx_31", "python_package_version"),
       DropIndex("python_package_version_index_idx_32", "python_package_version"),
       DropIndex("python_package_version_index_idx_33", "python_package_version") >>

\* Faulty variant: python_package_version_index_idx_00 is not dropped.
downgrade_b91c11e75551_keeping_00 ==
    << CreateIndex("python_package_version_index_idx_33", "python_package_version",
                   <<"package_name", "package_version", "python_package_index_id", "os_name", "os_version", "python_version">>),
       CreateIndex("python_package_version_index_idx_32", "python_package_version",
                   <<"package_name", "package_version", "python_package_index_id", "python_package_index_id", "os_version", "python_version">>),
       CreateIndex("python_package_version_index_idx_31", "python_package_version",
                   <<"package_name", "package_version", "python_package_index_id", "python_package_index_id", "os_name", "python_version">>),
       CreateIndex("python_package_version_index_idx_25", "python_package_version",
                   <<"package_name", "package_version", "python_package_index_id", "os_version", "python_version">>),
       CreateIndex("python_package_version_index_idx_24", "python_package_version",
                   <<"package_name", "package_version", "python_package_index_id", "os_name", "python_version">>),
       CreateIndex("python_package_version_index_idx_23", "python_package_version",
                   <<"package_name", "package_version", "python_package_index_id", "os_name", "os_version">>),
       CreateIndex("python_package_version_index_idx_13", "python_package_version",
                   <<"package_name", "package_version", "python_package_index_id", "python_version">>),
       CreateIndex("python_package_version_idx", "python_package_version",
                   <<"package_name", "package_version", "python_package_index_id">>),
       DropIndex("python_package_version_index_idx_30", "python_package_version"),
       CreateIndex("python_package_version_index_idx_30", "python_package_version",
                   <<"package_name", "package_version", "python_package_index_id", "python_package_index_id", "os_name", "os_version">>),
       DropIndex("python_package_version_index_idx_22", "python_package_version"),
       CreateIndex("python_package_version_index_idx_22", "python_package_version",
                   <<"package_name", "package_version", "python_package_index_id", "python_package_index_id", "python_version">>),
       DropIndex("python_package_version_index_idx_21", "python_package_version"),
       CreateIndex("python_package_version_index_idx_21", "python_package_version",
                   <<"package_name", "package_version", "python_package_index_id", "python_package_index_id", "os_version">>),
       DropIndex("python_package_version_index_idx_20", "python_package_version"),
       CreateIndex("python_package_version_index_idx_20", "python_package_version",
                   <<"package_name", "package_version", "python_package_index_id", "python_package_index_id", "os_name">>),
       DropIndex("python_package_version_index_idx_12", "python_package_version"),
       CreateIndex("python_package_version_index_idx_12", "python_package_version",
                   <<"package_name", "package_version", "python_package_index_id", "os_version">>),
       DropIndex("python_package_version_index_idx_11", "python_package_version"),
       CreateIndex("python_package_version_index_idx_11", "python_package_version",
                   <<"package_name", "package_version", "python_package_index_id", "os_name">>),
       DropIndex("python_package_version_index_idx_10", "python_package_version"),
       CreateIndex("python_package_version_index_idx_10", "python_package_version",
                   <<"package_name", "package_version", "python_package_index_id", "python_package_index_id">>) >>

downgrade_b91c11e75551 ==
    << CreateIndex("python_package_version_index_idx_33", "python_package_version",
                   <<"package_name", "package_version", "python_package_index_id", "os_name", "os_version", "python_version">>),
       CreateIndex("python_package_version_index_idx_32", "python_package_version",
                   <<"package_name", "package_version", "python_package_index_id", "python_package_index_id", "os_version", "python_version">>),
       CreateIndex("python_package_version_index_idx_31", "python_package_version",
                   <<"package_name", "package_version", "python_package_index_id", "python_package_index_id", "os_name", "python_version">>),
       CreateIndex("python_package_version_index_idx_25", "python_package_version",
                   <<"package_name", "package_version", "python_package_index_id", "os_version", "python_version">>),
       CreateIndex("python_package_version_index_idx_24", "python_package_version",
                   <<"package_name", "package_version", "python_package_index_id", "os_name", "python_version">>),
       CreateIndex("python_package_version_index_idx_23", "python_package_version",
                   <<"package_name", "package_version", "python_package_index_id", "os_name", "os_version">>),
       CreateIndex("python_package_version_index_idx_13", "python_package_version",
                   <<"package_name", "package_version", "python_package_index_id", "python_version">>),
       CreateIndex("python_package_version_idx", "python_package_version",
                   <<"package_name", "package_version", "python_package_index_id">>),
       DropIndex("python_package_version_index_idx_30", "python_package_version"),
       CreateIndex("python_package_version_index_idx_30", "python_package_version",
                   <<"package_name", "package_version", "python_package_index_id", "python_package_index_id", "os_name", "os_version">>),
       DropIndex("python_package_version_index_idx_22", "python_package_version"),
       CreateIndex("python_package_version_index_idx_22", "python_package_version",
                   <<"package_name", "package_version", "python_package_index_id", "python_package_index_id", "python_version">>),
       DropIndex("python_package_version_index_idx_21", "python_package_version"),
       CreateIndex("python_package_version_index_idx_21", "python_package_version",
                   <<"package_name", "package_version", "python_package_index_id", "python_package_index_id", "os_version">>),
       DropIndex("python_package_version_index_idx_20", "python_package_version"),
       CreateIndex("python_package_version_index_idx_20", "python_package_version",
                   <<"package_name", "package_version", "python_package_index_id", "python_package_index_id", "os_name">>),
       DropIndex("python_package_version_index_idx_12", "python_package_version"),
       CreateIndex("python_package_version_index_idx_12", "python_package_version",
                   <<"package_name", "package_version", "python_package_index_id", "os_version">>),
       DropIndex("python_package_version_index_idx_11", "python_package_version"),
       CreateIndex("python_package_version_index_idx_11", "python_package_version",
                   <<"package_name", "package_version", "python_package_index_id", "os_name">>),
       DropIndex("python_package_version_index_idx_10", "python_package_version"),
       CreateIndex("python_package_version_index_idx_10", "python_package_version",
                   <<"package_name", "package_version", "python_package_index_id", "python_package_index_id">>),
       DropIndex("python_package_version_index_idx_00", "python_package_version") >>

Revisions == {"79e1d320db3d", "b91c11e75551"}

\* The revision a revision revises.
down_revision(revision) ==
    IF revision = "79e1d320db3d" THEN "8231fee9a210" ELSE "1fbd52a03c73"

\* The operations of a run of a revision in a direction.
Operations(revision, direction) ==
    IF revision = "79e1d320db3d"
    THEN IF direction = "upgrade" THEN upgrade_79e1d320db3d ELSE downgrade_79e1d320db3d
    ELSE IF direction = "upgrade" THEN upgrade_b91c11e75551 ELSE downgrade_b91c11e75551

Index(o) == [name |-> o.name, table |-> o.table, columns |-> o.columns]

\* The indexes a run of `operations` leaves of those it names: the ones it
\* creates and does not drop afterwards.
Leaves(operations) ==
    {Index(operations[i]) : i \in {j \in DOMAIN operations :
        /\ operations[j].op = "create_index"
        /\ \A k \in DOMAIN operations :
              (k > j /\ operations[k].name = operations[j].name)
                 => operations[k].op # "drop_index"}}

\* Indexes the models declare on depends_on; earlier revisions may or may
\* not have created them.
ModelIndexes ==
    {[name |-> "depends_on_idx", table |-> "depends_on",
      columns |-> <<"entity_id", "version_id", "version_range">>],
     [name |-> "depends_on_version_range_idx", table |-> "depends_on",
      columns |-> <<"entity_id", "version_id", "version_range">>]}

\* The indexes, of those the two migrations deal with, that a database at
\* `version` has: a database at the revision that b91c11e75551 revises has
\* what downgrade() of b91c11e75551 leaves, and the index of 79e1d320db3d.
Expected(version) ==
    IF version = "1fbd52a03c73"
    THEN Leaves(downgrade_b91c11e75551) \cup Leaves(upgrade_79e1d320db3d)
    ELSE Leaves(downgrade_79e1d320db3d)

\* No run; `before` is the set of indexes a run started from.
NoRun == [revision |-> "", direction |-> "", before |-> {}]

\* A database at `version` with `indexes` and no migration running; `done`
\* and `previous` are the last two runs that completed.
AtRest(version, indexes) ==
    [version |-> version, indexes |-> indexes, running |-> NoRun, pc |-> 0,
     error |-> "none", done |-> NoRun, previous |-> NoRun]

NoMigration == AtRest("", {})

(***************************************************************************)
(* Inspection documents, as handed to a performance indicator's            *)
(* create_from_report (graph/models_performance.py).  A JSON value is      *)
(* modelled by its text.  job_log.stdout may lack framework, overall_score *)
(* and version, or carry an empty version; job_log may lack script_sha256, *)
(* exit_code and usage, and usage may lack statistics.                     *)
(***************************************************************************)
\* dict.get(key): None for a missing key.
Get(object, key) == IF key \in DOMAIN object THEN object[key] ELSE PyNone

\* {**f, **g}: the entries of both, those of g taking precedence.
Merge(f, g) ==
    [k \in DOMAIN f \cup DOMAIN g |-> IF k \in DOMAIN g THEN g[k] ELSE f[k]]

\* The objects that have `key`, with one of `values`, or lack it.
Optional(key, values) ==
    {EmptyObject} \cup {[k \in {key} |-> v] : v \in values}

RuFields ==
    {"ru_utime", "ru_stime", "ru_maxrss", "ru_ixrss", "ru_idrss", "ru_isrss",
     "ru_minflt", "ru_majflt", "ru_nswap", "ru_inblock", "ru_oublock",
     "ru_msgsnd", "ru_msgrcv", "ru_nsignals", "ru_nvcsw", "ru_nivcsw"}

\* The keywords create_from_report binds.
BaseFields ==
    {"inspection_run_id", "framework", "origin", "version", "overall_score",
     "exit_code"} \cup RuFields

\* Names of @parameters and @result entries: a parameter and a result of
\* PiMatmul, and a name that is also a base field.
EntryNames == {"matrix_size", "elapsed", "version"}

\* The @parameters (or @result) objects whose entries all have `value`.
Entries(value) == UNION {[names -> {value}] : names \in SUBSET EntryNames}

Stdouts ==
    {Merge(Merge(Merge([k \in {"@parameters", "@result"} |->
                           IF k = "@parameters" THEN parameters ELSE result],
                       framework), overall_score), version) :
        parameters \in Entries("from-parameters"),
        result \in Entries("from-result"),
        framework \in Optional("framework", {"tensorflow"}),
        overall_score \in Optional("overall_score", {"0.5"}),
        version \in Optional("version", {"", "2.0.0"})}

Usages ==
    {[f \in RuFields |-> "1"], [f \in RuFields \ {"ru_nswap"} |-> "1"], EmptyObject}

JobLogs ==
    {Merge(Merge(Merge([stdout |-> stdout], script_sha256), exit_code), usage) :
        stdout \in Stdouts,
        script_sha256 \in Optional("script_sha256", {"sha256-of-script"}),
        exit_code \in Optional("exit_code", {"0"}),
        usage \in Optional("usage", Usages)}

InspectionDocuments ==
    {[specification |-> [script |-> "https://example.com/matmul.py"],
      job_log |-> job_log] : job_log \in JobLogs}

\* No create_from_report yet.  `keywords` are those create_from_report
\* bound, `reached` the function the call got to, `calls` the keyword sets
\* with which the model (get_or_create) was called, in order.
NoReport ==
    [document |-> None, inspection_run_id |-> "", called |-> FALSE,
     error |-> "none", keywords |-> EmptyObject, reached |-> "", calls |-> << >>]

\* The instance of a class: whether it has been constructed and, if so,
\* the prefix its Ceph handle was created with.
NoInstance == [constructed |-> FALSE, prefix |-> PyNone]

\* Every subtype has its instance (where construction is not looked at).
Constructed ==
    [cls \in Classes |->
        IF cls \in Adapters
        THEN [constructed |-> TRUE, prefix |-> CephPrefix(cls)]
        ELSE NoInstance]

Callers == 1..MaxCallers

\* A caller that is in no call; `self` is the adapter it holds.
Idle(self) ==
    [pc |-> "idle", adapter |-> self, document |-> None, id |-> "",
     error |-> "none", ret_id |-> "", subject |-> << >>]

NoCall ==
    [op |-> "none", adapter |-> "", document |-> None, document_id |-> "",
     error |-> "none", cause |-> {}, requests |-> << >>, replaced |-> {},
     ret_id |-> "", ret_doc |-> None, ret_flag |-> FALSE, ret_ids |-> {},
     ret_listing |-> << >>, ret_results |-> {}]

Call(op, self, document, document_id) ==
    [NoCall EXCEPT !.op = op, !.adapter = self,
                   !.document = document, !.document_id = document_id]

\* The call raised `error` (with `cause` as its __cause__) before anything
\* was sent to the blob store; nothing changes.
Raise(call, error, cause) ==
    /\ last' = [call EXCEPT !.error = error, !.cause = cause]
    /\ UNCHANGED <<objects, connected, derived0, calls, db, graph, alembic, report, instances>>

Init ==
    /\ objects = {}
    /\ connected = [a \in Adapters |-> FALSE]
    /\ last = NoCall
    /\ derived0 = [document \in Documents |->
                      get_document_id(CHOOSE cls \in Adapters : TRUE, document)]
    /\ calls = [c \in Callers |-> Idle("")]
    /\ db = EmptyDatabase
    /\ graph = EmptyGraph
    /\ alembic = NoMigration
    /\ report = NoReport
    /\ instances = Constructed

(***************************************************************************)
(* The Ceph adapter (CephStore), one handle per result adapter.            *)
(***************************************************************************)
ObjectsAt(key) == {o \in objects : o.key = key}

\* put: the object under `key` is replaced.
Put(key, body) == {o \in objects : o.key # key} \cup {[key |-> key, body |-> body]}

\* The documents an adapter's namespace holds under an id.
StoredUnder(self, document_id) ==
    {loads(o.body) : o \in ObjectsAt(ObjectKey(CephPrefix(self), document_id))}

\* What CephStore.store_document can do: the objects after it, the error it
\* raises, the requests it sent, the documents its write replaced (recorded
\* when the call returns).  A transient failure may strike before the write
\* or after it (the response is lost).
CephStoreDocument(self, document, document_id) ==
    LET key == ObjectKey(CephPrefix(self), document_id)
        req == << [method |-> "PUT", key |-> key] >>
        old == StoredUnder(self, document_id)
    IN IF ~connected[self]
       THEN {[error |-> "NotConnectedError", objects |-> objects,
              requests |-> << >>, replaced |-> {}]}
       ELSE {[error |-> "none", objects |-> Put(key, dumps(document)),
              requests |-> req, replaced |-> old],
             [error |-> "StorageUnavailableError", objects |-> objects,
              requests |-> req, replaced |-> {}],
             [error |-> "StorageUnavailableError",
              objects |-> Put(key, dumps(document)),
              requests |-> req, replaced |-> {}]}

\* What CephStore.retrieve_document can do.
CephRetrieveDocument(self, document_id) ==
    LET key == ObjectKey(CephPrefix(self), document_id)
        req == << [method |-> "GET", key |-> key] >>
    IN IF ~connected[self]
       THEN {[error |-> "NotConnectedError", document |-> None, requests |-> << >>]}
       ELSE {[error |-> "StorageUnavailableError", document |-> None, requests |-> req]}
            \cup (IF ObjectsAt(key) = {}
                  THEN {[error |-> "NotFoundError", document |-> None, requests |-> req]}
                  ELSE {[error |-> "none", document |-> loads(o.body), requests |-> req]
                        : o \in ObjectsAt(key)})

\* What CephStore.document_exists can do.
CephDocumentExists(self, document_id) ==
    LET key == ObjectKey(CephPrefix(self), document_id)
        req == << [method |-> "HEAD", key |-> key] >>
    IN IF ~connected[self]
       THEN {[error |-> "NotConnectedError", flag |-> FALSE, requests |-> << >>]}
       ELSE {[error |-> "StorageUnavailableError", flag |-> FALSE, requests |-> req],
             [error |-> "none", flag |-> ObjectsAt(key) # {}, requests |-> req]}

\* The orders in which the store may list the keys of `bucket`: every
\* object once, in an order of the store's choosing.
ListingsOf(bucket) ==
    {s \in [1..Cardinality(bucket) -> bucket] :
        \A i \in DOMAIN s, j \in DOMAIN s : s[i] = s[j] => i = j}

\* What CephStore.get_document_listing can do: the ids under the prefix,
\* one per object, the prefix stripped from the key.
CephGetDocumentListing(self) ==
    LET req == << [method |-> "LIST", key |-> CephPrefix(self)] >>
        under(id) == ObjectsAt(ObjectKey(CephPrefix(self), id))
        listed == {<<id, o>> \in DocumentIds \X objects : o \in under(id)}
    IN IF ~connected[self]
       THEN {[error |-> "NotConnectedError", ids |-> {}, listing |-> << >>,
              requests |-> << >>]}
       ELSE {[error |-> "StorageUnavailableError", ids |-> {}, listing |-> << >>,
              requests |-> req]}
            \cup {[error |-> "none",
                   ids |-> {s[i][1] : i \in DOMAIN s},
                   listing |-> [i \in DOMAIN s |-> s[i][1]],
                   requests |-> req] : s \in ListingsOf(listed)}

\* The GET requests of an iteration over `ids`, one per id.
GetsOf(prefix, ids) ==
    LET sel == SelectSeq(SubSeq(HostnamePool, 1, MaxHostnames), LAMBDA h : h \in ids)
    IN [i \in 1..Len(sel) |-> [method |-> "GET", key |-> ObjectKey(prefix, sel[i])]]

\* What CephStore.iterate_results can do, the generator consumed to its end:
\* the listing, then for each listed id the pair of the id and its document.
CephIterateResults(self) ==
    LET req == << [method |-> "LIST", key |-> CephPrefix(self)] >>
        ids == {id \in DocumentIds : ObjectsAt(ObjectKey(CephPrefix(self), id)) # {}}
    IN IF ~connected[self]
       THEN {[error |-> "NotConnectedError", results |-> {}, requests |-> << >>]}
       ELSE {[error |-> "StorageUnavailableError", results |-> {}, requests |-> req],
             [error |-> "none",
              results |-> UNION {{<<id, loads(o.body)>> :
                                     o \in ObjectsAt(ObjectKey(CephPrefix(self), id))}
                                  : id \in ids},
              requests |-> req \o GetsOf(CephPrefix(self), ids)]}

(***************************************************************************)
(* ResultStorageBase.                                                      *)
(***************************************************************************)
\* Faulty variant: asking for the state of the session opens one.
is_connected_connecting(self) ==
    /\ last' = [Call("is_connected", self, None, "") EXCEPT !.ret_flag = TRUE]
    /\ connected' = [connected EXCEPT ![self] = TRUE]
    /\ UNCHANGED <<objects, derived0, calls, db, graph, alembic, report, instances>>

is_connected(self) ==
    /\ last' = [Call("is_connected", self, None, "") EXCEPT !.ret_flag = connected[self]]
    /\ UNCHANGED <<objects, connected, derived0, calls, db, graph, alembic, report, instances>>

connect(self) ==
    \/ /\ connected' = [connected EXCEPT ![self] = TRUE]
       /\ last' = Call("connect", self, None, "")
       /\ UNCHANGED <<objects, derived0, calls, db, graph, alembic, report, instances>>
    \/ Raise(Call("connect", self, None, ""), "ConnectionError", {})

call_get_document_id(self, document) ==
    LET derived == get_document_id(self, document)
    IN /\ last' = [Call("get_document_id", self, document, "")
                      EXCEPT !.error = derived.error, !.ret_id = derived.id]
       /\ UNCHANGED <<objects, connected, derived0, calls, db, graph, alembic, report, instances>>

\* Faulty variant: the generator stops after the first id of the listing.
get_document_listing_first_only(self) ==
    \E o \in CephGetDocumentListing(self) :
        /\ last' = [Call("get_document_listing", self, None, "")
                       EXCEPT !.error = o.error, !.requests = o.requests,
                              !.ret_ids = {o.listing[i] : i \in DOMAIN o.listing \cap {1}},
                              !.ret_listing = SubSeq(o.listing, 1,
                                                     IF o.listing = << >> THEN 0 ELSE 1)]
        /\ UNCHANGED <<objects, connected, derived0, calls, db, graph, alembic, report, instances>>

\* The generator is consumed to its end by the caller: ret_listing is the
\* sequence it yielded, ret_ids the set of its elements.
get_document_listing(self) ==
    \E o \in CephGetDocumentListing(self) :
        /\ last' = [Call("get_document_listing", self, None, "")
                       EXCEPT !.error = o.error, !.requests = o.requests,
                              !.ret_ids = o.ids, !.ret_listing = o.listing]
        /\ UNCHANGED <<objects, connected, derived0, calls, db, graph, alembic, report, instances>>

\* The end of store_document: the Ceph adapter's store_document had outcome
\* `o`; on success `id` is returned, otherwise o's error propagates.
Stored(self, document, o, id) ==
    /\ objects' = o.objects
    /\ last' = [Call("store_document", self, document, "")
                   EXCEPT !.error = o.error, !.requests = o.requests,
                          !.replaced = o.replaced,
                          !.ret_id = IF o.error = "none" THEN id ELSE ""]
    /\ UNCHANGED <<connected, derived0, calls, db, graph, alembic, report, instances>>

\* Faulty variant: no schema validation.
store_document_unvalidated(self, document) ==
    LET derived == get_document_id(self, document)
    IN IF derived.error # "none"
       THEN Raise(Call("store_document", self, document, ""), derived.error, {})
       ELSE \E o \in CephStoreDocument(self, document, derived.id) :
               Stored(self, document, o, derived.id)

\* Faulty variant: only the document's metadata is written.
store_document_metadata_only(self, document) ==
    IF RESULT_SCHEMA(document) # {}
    THEN Raise(Call("store_document", self, document, ""),
               "SchemaError", RESULT_SCHEMA(document))
    ELSE LET derived == get_document_id(self, document)
         IN IF derived.error # "none"
            THEN Raise(Call("store_document", self, document, ""), derived.error, {})
            ELSE \E o \in CephStoreDocument(self, [metadata |-> document["metadata"]],
                                            derived.id) :
                    Stored(self, document, o, derived.id)

\* Faulty variant: the id is returned without the document having been written.
store_document_without_write(self, document) ==
    IF RESULT_SCHEMA(document) # {}
    THEN Raise(Call("store_document", self, document, ""),
               "SchemaError", RESULT_SCHEMA(document))
    ELSE LET derived == get_document_id(self, document)
         IN IF derived.error # "none"
            THEN Raise(Call("store_document", self, document, ""), derived.error, {})
            ELSE /\ last' = [Call("store_document", self, document, "")
                                EXCEPT !.ret_id = derived.id]
                 /\ UNCHANGED <<objects, connected, derived0, calls, db, graph, alembic, report, instances>>

\* Faulty variant: create-only, a store onto an existing id is refused.
store_document_create_only(self, document) ==
    IF RESULT_SCHEMA(document) # {}
    THEN Raise(Call("store_document", self, document, ""),
               "SchemaError", RESULT_SCHEMA(document))
    ELSE LET derived == get_document_id(self, document)
         IN IF derived.error # "none"
            THEN Raise(Call("store_document", self, document, ""), derived.error, {})
            ELSE IF StoredUnder(self, derived.id) # {}
                 THEN Raise(Call("store_document", self, document, ""),
                            "ConflictError", {})
                 ELSE \E o \in CephStoreDocument(self, document, derived.id) :
                         Stored(self, document, o, derived.id)

\* Faulty variant: first write wins, a store onto an existing id writes nothing and
\* returns the id.
store_document_keep_first(self, document) ==
    IF RESULT_SCHEMA(document) # {}
    THEN Raise(Call("store_document", self, document, ""),
               "SchemaError", RESULT_SCHEMA(document))
    ELSE LET derived == get_document_id(self, document)
         IN IF derived.error # "none"
            THEN Raise(Call("store_document", self, document, ""), derived.error, {})
            ELSE IF StoredUnder(self, derived.id) # {}
                 THEN /\ last' = [Call("store_document", self, document, "")
                                     EXCEPT !.ret_id = derived.id]
                      /\ UNCHANGED <<objects, connected, derived0, calls, db, graph, alembic, report, instances>>
                 ELSE \E o \in CephStoreDocument(self, document, derived.id) :
                         Stored(self, document, o, derived.id)

\* Faulty variant: the object key is returned in place of the document id.
store_document_returns_key(self, document) ==
    IF RESULT_SCHEMA(document) # {}
    THEN Raise(Call("store_document", self, document, ""),
               "SchemaError", RESULT_SCHEMA(document))
    ELSE LET derived == get_document_id(self, document)
         IN IF derived.error # "none"
            THEN Raise(Call("store_document", self, document, ""), derived.error, {})
            ELSE \E o \in CephStoreDocument(self, document, derived.id) :
                    Stored(self, document, o,
                           ObjectKey(CephPrefix(self), derived.id))

\* Faulty variant: an adapter without a session opens one by itself and writes.
store_document_autoconnect(self, document) ==
    IF RESULT_SCHEMA(document) # {}
    THEN Raise(Call("store_document", self, document, ""),
               "SchemaError", RESULT_SCHEMA(document))
    ELSE LET derived == get_document_id(self, document)
         IN IF derived.error # "none"
            THEN Raise(Call("store_document", self, document, ""), derived.error, {})
            ELSE IF ~connected[self]
                 THEN LET key == ObjectKey(CephPrefix(self), derived.id)
                      IN /\ objects' = Put(key, dumps(document))
                         /\ connected' = [connected EXCEPT ![self] = TRUE]
                         /\ last' = [Call("store_document", self, document, "")
                                        EXCEPT !.requests =
                                                  << [method |-> "PUT", key |-> key] >>,
                                               !.ret_id = derived.id]
                         /\ UNCHANGED <<derived0, calls, db, graph, alembic, report, instances>>
                 ELSE \E o \in CephStoreDocument(self, document, derived.id) :
                         Stored(self, document, o, derived.id)

\* Faulty variant: a write that failed transiently is sent a second time, and the
\* id is returned when the second attempt succeeds.
store_document_retrying(self, document) ==
    IF RESULT_SCHEMA(document) # {}
    THEN Raise(Call("store_document", self, document, ""),
               "SchemaError", RESULT_SCHEMA(document))
    ELSE LET derived == get_document_id(self, document)
         IN IF derived.error # "none"
            THEN Raise(Call("store_document", self, document, ""), derived.error, {})
            ELSE \E o \in CephStoreDocument(self, document, derived.id) :
                    IF o.error = "StorageUnavailableError"
                    THEN Stored(self, document,
                                [error |-> "none",
                                 objects |-> Put(ObjectKey(CephPrefix(self), derived.id),
                                                 dumps(document)),
                                 requests |-> o.requests \o o.requests,
                                 replaced |-> StoredUnder(self, derived.id)],
                                derived.id)
                    ELSE Stored(self, document, o, derived.id)

\* Faulty variant: the id is derived before the document is validated.
store_document_id_first(self, document) ==
    LET derived == get_document_id(self, document)
    IN IF derived.error # "none"
       THEN Raise(Call("store_document", self, document, ""), derived.error, {})
       ELSE IF RESULT_SCHEMA(document) # {}
       THEN Raise(Call("store_document", self, document, ""),
                  "SchemaError", RESULT_SCHEMA(document))
       ELSE \E o \in CephStoreDocument(self, document, derived.id) :
               Stored(self, document, o, derived.id)

store_document(self, document) ==
    IF RESULT_SCHEMA(document) # {}
    THEN Raise(Call("store_document", self, document, ""),
               "SchemaError", RESULT_SCHEMA(document))
    ELSE LET derived == get_document_id(self, document)
         IN IF derived.error # "none"
            THEN Raise(Call("store_document", self, document, ""), derived.error, {})
            ELSE \E o \in CephStoreDocument(self, document, derived.id) :
                    Stored(self, document, o, derived.id)

\* Faulty variant: an absent key is answered with None, no error is raised.
retrieve_document_default(self, document_id) ==
    \E o \in CephRetrieveDocument(self, document_id) :
        /\ last' = [Call("retrieve_document", self, None, document_id)
                       EXCEPT !.error = IF o.error = "NotFoundError" THEN "none"
                                        ELSE o.error,
                              !.requests = o.requests,
                              !.ret_doc = o.document]
        /\ UNCHANGED <<objects, connected, derived0, calls, db, graph, alembic, report, instances>>

\* Faulty variant: the id is not passed on, some document of the bucket is
\* returned.
retrieve_document_any(self, document_id) ==
    \E o \in CephRetrieveDocument(self, document_id) :
        \E x \in IF o.error = "none" THEN objects ELSE {[body |-> << >>]} :
            /\ last' = [Call("retrieve_document", self, None, document_id)
                           EXCEPT !.error = o.error, !.requests = o.requests,
                                  !.ret_doc = IF o.error = "none" THEN loads(x.body)
                                              ELSE o.document]
            /\ UNCHANGED <<objects, connected, derived0, calls, db, graph, alembic, report, instances>>

retrieve_document(self, document_id) ==
    \E o \in CephRetrieveDocument(self, document_id) :
        /\ last' = [Call("retrieve_document", self, None, document_id)
                       EXCEPT !.error = o.error, !.requests = o.requests,
                              !.ret_doc = o.document]
        /\ UNCHANGED <<objects, connected, derived0, calls, db, graph, alembic, report, instances>>

document_exists(self, document_id) ==
    \E o \in CephDocumentExists(self, document_id) :
        /\ last' = [Call("document_exists", self, None, document_id)
                       EXCEPT !.error = o.error, !.requests = o.requests,
                              !.ret_flag = o.flag]
        /\ UNCHANGED <<objects, connected, derived0, calls, db, graph, alembic, report, instances>>

\* The generator is consumed to its end by the caller.
iterate_results(self) ==
    \E o \in CephIterateResults(self) :
        /\ last' = [Call("iterate_results", self, None, "")
                       EXCEPT !.error = o.error, !.requests = o.requests,
                              !.ret_results = o.results]
        /\ UNCHANGED <<objects, connected, derived0, calls, db, graph, alembic, report, instances>>

Next ==
    \/ \E self \in Adapters : is_connected(self)
    \/ \E self \in Adapters : connect(self)
    \/ \E self \in Adapters : get_document_listing(self)
    \/ \E self \in Adapters : iterate_results(self)
    \/ \E self \in Adapters, document \in Documents : store_document(self, document)
    \/ \E self \in Adapters, document_id \in DocumentIds : retrieve_document(self, document_id)
    \/ \E self \in Adapters, document_id \in DocumentIds : document_exists(self, document_id)

Spec == Init /\ [][Next]_vars

\* The same, with calls of the classmethod get_document_id by themselves.
NextDerive ==
    \/ Next
    \/ \E self \in Adapters, document \in Documents : call_get_document_id(self, document)

SpecDerive == Init /\ [][NextDerive]_vars

(***************************************************************************)
(* The build-log cache (CephCache): a document store whose documents are   *)
(* {subject_hash, result_reference} records, stored under their            *)
(* subject_hash.                                                           *)
(***************************************************************************)
cache_store_document(self, record) ==
    IF CACHE_SCHEMA(record) # {}
    THEN Raise(Call("store_document", self, record, ""),
               "SchemaError", CACHE_SCHEMA(record))
    ELSE \E o \in CephStoreDocument(self, record, record["subject_hash"]) :
            Stored(self, record, o, record["subject_hash"])

NextCache ==
    \/ \E self \in Caches : is_connected(self)
    \/ \E self \in Caches : connect(self)
    \/ \E self \in Caches, record \in CacheRecords : cache_store_document(self, record)
    \/ \E self \in Caches, h \in SubjectHashes : retrieve_document(self, h)
    \/ \E self \in Caches, h \in SubjectHashes : document_exists(self, h)

SpecCache == Init /\ [][NextCache]_vars

(***************************************************************************)
(* The relational database.  A row is created through get_or_create of its *)
(* model: a query for a row with the given column values and, when there   *)
(* is none, an INSERT, which the database refuses when the table's unique  *)
(* constraint is violated.  Database sessions run side by side.            *)
(***************************************************************************)
\* The comparison "a = b" of SQL is true: neither value is NULL and they
\* are equal.  (NULL = NULL is not true.)
SqlEquals(a, b) == a # NULL /\ b # NULL /\ a = b

\* The rows of the table that the query of get_or_create selects: a NULL
\* value is matched with IS NULL.
FilterBy(table, key) ==
    {r \in db.rows[table] : \A column \in KeyColumns(table) : r[column] = key[column]}

\* The rows of the table with which a new row of `key` violates the unique
\* constraint: equal, by SQL's comparison, in every column of it.
Conflicting(table, key) ==
    {r \in db.rows[table] :
        \A column \in KeyColumns(table) : SqlEquals(r[column], key[column])}

\* The row an INSERT of `key` creates; id is the autoincrement primary key.
NewRow(table, key) ==
    [column \in KeyColumns(table) \cup {"id"} |->
        IF column = "id" THEN Cardinality(db.rows[table]) + 1 ELSE key[column]]

\* get_or_create up to its query: an existing row is returned, or the
\* session goes on to add one.
get_or_create_query(s, table, key) ==
    /\ db.sessions[s].pc = "idle"
    /\ IF FilterBy(table, key) # {}
       THEN \E r \in FilterBy(table, key) :
               db' = [db EXCEPT !.sessions[s] =
                         [pc |-> "idle", table |-> table, key |-> key,
                          id |-> r["id"], existed |-> TRUE]]
       ELSE db' = [db EXCEPT !.sessions[s] =
                      [pc |-> "adding", table |-> table, key |-> key,
                       id |-> 0, existed |-> FALSE]]
    /\ UNCHANGED <<objects, connected, last, derived0, calls,
                    graph, alembic, report, instances>>

\* get_or_create from its INSERT on: an IntegrityError of the database is
\* answered with the row that is in the way.
get_or_create_commit(s) ==
    LET table == db.sessions[s].table
        key == db.sessions[s].key
    IN /\ db.sessions[s].pc = "adding"
       /\ IF Conflicting(table, key) # {}
          THEN \E r \in Conflicting(table, key) :
                  db' = [db EXCEPT !.sessions[s].pc = "idle",
                                   !.sessions[s].id = r["id"],
                                   !.sessions[s].existed = TRUE]
          ELSE /\ Cardinality(db.rows[table]) < MaxRows
               /\ db' = [db EXCEPT !.rows[table] = @ \cup {NewRow(table, key)},
                                   !.sessions[s].pc = "idle",
                                   !.sessions[s].id = NewRow(table, key)["id"]]
       /\ UNCHANGED <<objects, connected, last, derived0, calls,
                    graph, alembic, report, instances>>

NextPackageVersion ==
    \/ \E s \in Sessions, key \in Keys("python_package_version") :
          get_or_create_query(s, "python_package_version", key)
    \/ \E s \in Sessions : get_or_create_commit(s)

SpecPackageVersion == Init /\ [][NextPackageVersion]_vars

NextPackageVersionEntity ==
    \/ \E s \in Sessions, key \in Keys("python_package_version_entity") :
          get_or_create_query(s, "python_package_version_entity", key)
    \/ \E s \in Sessions : get_or_create_commit(s)

SpecPackageVersionEntity == Init /\ [][NextPackageVersionEntity]_vars

(***************************************************************************)
(* Statements on the graph tables: an INSERT of a row and a DELETE of a    *)
(* row by its id, as the database runs them under the foreign keys the     *)
(* models declare.  A statement that violates a constraint raises          *)
(* IntegrityError and changes no row.                                      *)
(***************************************************************************)
Ref(table, id) == [table |-> table, id |-> id]

\* The foreign-key columns of a table.
Columns(table) == {fk.column : fk \in {k \in ForeignKeys : k.table = table}}

\* Every row of the graph, as a reference (table, id).
AllRows == UNION {{Ref(t, r["id"]) : r \in graph.rows[t]} : t \in GraphTables}

\* The rows that refer to a row of `refs` through a foreign key whose
\* ondelete rule is one of `rules`.
Referring(refs, rules) ==
    UNION {{Ref(fk.table, r["id"]) :
               r \in {x \in graph.rows[fk.table] :
                         Ref(fk.parent, x[fk.column]) \in refs}}
           : fk \in {k \in ForeignKeys : k.ondelete \in rules}}

\* `refs` and the rows that refer to them, directly or through other rows.
RECURSIVE Closure(_, _)
Closure(refs, rules) ==
    LET more == refs \cup Referring(refs, rules)
    IN IF more = refs THEN refs ELSE Closure(more, rules)

\* The id the next INSERT into the table gets.
NextId(table) ==
    IdPool[CHOOSE i \in 1..MaxRows :
              /\ \A r \in graph.rows[table] : r["id"] # IdPool[i]
              /\ \A j \in 1..(i - 1) : \E r \in graph.rows[table] : r["id"] = IdPool[j]]

\* INSERT of a row with the given foreign-key values.  A NULL in a column
\* that is not nullable, or a value that is no id of the parent table, is
\* refused.
create(table, values) ==
    LET refused ==
            \E fk \in ForeignKeys :
                /\ fk.table = table
                /\ IF values[fk.column] = NULL
                   THEN ~fk.nullable
                   ELSE Ref(fk.parent, values[fk.column]) \notin AllRows
        row == [c \in Columns(table) \cup {"id"} |->
                   IF c = "id" THEN NextId(table) ELSE values[c]]
    IN /\ Cardinality(graph.rows[table]) < MaxRows
       /\ Cardinality(AllRows) < MaxGraphRows
       /\ IF refused
          THEN graph' = [graph EXCEPT !.statement =
                            [op |-> "create", table |-> table, id |-> "",
                             error |-> "IntegrityError"]]
          ELSE graph' = [rows |-> [graph.rows EXCEPT ![table] = @ \cup {row}],
                         statement |-> [op |-> "create", table |-> table,
                                        id |-> row["id"], error |-> "none"]]
       /\ UNCHANGED <<objects, connected, last, derived0, calls, db,
                      alembic, report, instances>>

\* Faulty variant: only the row itself is removed.
delete_root_only(table, id) ==
    /\ Ref(table, id) \in AllRows
    /\ graph' = [rows |-> [graph.rows EXCEPT ![table] = {r \in @ : r["id"] # id}],
                 statement |-> [op |-> "delete", table |-> table, id |-> id,
                                error |-> "none"]]
    /\ UNCHANGED <<objects, connected, last, derived0, calls, db,
                   alembic, report, instances>>

\* DELETE of the row `id` of `table`.  The rows that refer to it through
\* ondelete="CASCADE" go with it, and so on; a row that stays and refers to
\* a removed row through a foreign key without an ondelete rule makes the
\* statement fail.
delete(table, id) ==
    LET gone == Closure({Ref(table, id)}, {"CASCADE"})
        blocking == Referring(gone, {"NO ACTION"}) \ gone
    IN /\ Ref(table, id) \in AllRows
       /\ IF blocking # {}
          THEN graph' = [graph EXCEPT !.statement =
                            [op |-> "delete", table |-> table, id |-> id,
                             error |-> "IntegrityError"]]
          ELSE graph' = [rows |-> [t \in GraphTables |->
                                     {r \in graph.rows[t] : Ref(t, r["id"]) \notin gone}],
                         statement |-> [op |-> "delete", table |-> table,
                                        id |-> id, error |-> "none"]]
       /\ UNCHANGED <<objects, connected, last, derived0, calls, db,
                      alembic, report, instances>>

\* The relationships between InspectionRun and SoftwareEnvironment, as
\* loaded from the database: the rows that the join on the relationship's
\* foreign_keys column selects.
\* SoftwareEnvironment.inspection_runs_run: foreign_keys is
\* InspectionRun.build_software_environment_id.
inspection_runs_run(e) ==
    {r \in graph.rows["inspection_run"] : r["build_software_environment_id"] = e["id"]}

\* SoftwareEnvironment.inspection_runs_build: foreign_keys is
\* InspectionRun.run_software_environment_id.
inspection_runs_build(e) ==
    {r \in graph.rows["inspection_run"] : r["run_software_environment_id"] = e["id"]}

\* InspectionRun.run_software_environment: foreign_keys is
\* run_software_environment_id.  The value is the set of the rows referred
\* to (one row, or none for NULL).
run_software_environment(r) ==
    {e \in graph.rows["software_environment"] : e["id"] = r["run_software_environment_id"]}

\* InspectionRun.build_software_environment: foreign_keys is
\* build_software_environment_id.
build_software_environment(r) ==
    {e \in graph.rows["software_environment"] : e["id"] = r["build_software_environment_id"]}

NextGraph ==
    \/ \E table \in GraphTables :
          \E values \in [Columns(table) -> RowIds \cup {NULL}] : create(table, values)
    \/ \E table \in GraphTables, id \in RowIds : delete(table, id)

SpecGraph == Init /\ [][NextGraph]_vars

(***************************************************************************)
(* Running the migrations.  A run of a revision executes the operations of *)
(* its upgrade() or downgrade() one after the other, each a statement of   *)
(* the database: create_index fails when an index of that name exists,     *)
(* drop_index when the table has no index of that name.  A run stops at    *)
(* the operation that fails.                                               *)
(***************************************************************************)
\* What op.create_index / op.drop_index does to the indexes.
Execute(o, indexes) ==
    IF o.op = "create_index"
    THEN IF \E x \in indexes : x.name = o.name
         THEN [error |-> "ProgrammingError", indexes |-> indexes]
         ELSE [error |-> "none", indexes |-> indexes \cup {Index(o)}]
    ELSE IF \E x \in indexes : x.name = o.name /\ x.table = o.table
         THEN [error |-> "none", indexes |-> {x \in indexes : x.name # o.name}]
         ELSE [error |-> "ProgrammingError", indexes |-> indexes]

\* The run of `revision` in `direction` starts.
Begin(revision, direction) ==
    /\ alembic.running = NoRun
    /\ alembic.error = "none"
    /\ alembic' = [alembic EXCEPT
                      !.running = [revision |-> revision, direction |-> direction,
                                   before |-> alembic.indexes],
                      !.pc = 0]
    /\ UNCHANGED <<objects, connected, last, derived0, calls, db,
                   graph, report, instances>>

\* alembic upgrade: the database is at the revision that `revision` revises.
upgrade(revision) ==
    /\ alembic.version = down_revision(revision)
    /\ Begin(revision, "upgrade")

\* alembic downgrade: the database is at `revision`.
downgrade(revision) ==
    /\ alembic.version = revision
    /\ Begin(revision, "downgrade")

\* The next operation of the run; with the last one the run completes and
\* the database is at the revision the run leads to.
run_operation ==
    LET run == alembic.running
        operations == Operations(run.revision, run.direction)
        o == operations[alembic.pc + 1]
        out == Execute(o, alembic.indexes)
    IN /\ run # NoRun
       /\ alembic.error = "none"
       /\ IF out.error # "none"
          THEN alembic' = [alembic EXCEPT !.error = out.error]
          ELSE IF alembic.pc + 1 < Len(operations)
          THEN alembic' = [alembic EXCEPT !.indexes = out.indexes, !.pc = @ + 1]
          ELSE alembic' = [alembic EXCEPT
                              !.indexes = out.indexes,
                              !.pc = 0,
                              !.running = NoRun,
                              !.version = IF run.direction = "upgrade"
                                          THEN run.revision
                                          ELSE down_revision(run.revision),
                              !.previous = alembic.done,
                              !.done = run]
       /\ UNCHANGED <<objects, connected, last, derived0, calls, db,
                      graph, report, instances>>

\* A database at the revision one of the two migrations revises, with the
\* indexes expected there and any of the models' other indexes.
InitMigrations ==
    /\ objects = {}
    /\ connected = [a \in Adapters |-> FALSE]
    /\ last = NoCall
    /\ derived0 = [document \in Documents |->
                      get_document_id(CHOOSE cls \in Adapters : TRUE, document)]
    /\ calls = [c \in Callers |-> Idle("")]
    /\ db = EmptyDatabase
    /\ graph = EmptyGraph
    /\ report = NoReport
    /\ instances = Constructed
    /\ \E revision \in Revisions, others \in SUBSET ModelIndexes :
          alembic = AtRest(down_revision(revision),
                           Expected(down_revision(revision)) \cup others)

NextMigrations ==
    \/ \E revision \in Revisions : upgrade(revision)
    \/ \E revision \in Revisions : downgrade(revision)
    \/ run_operation

SpecMigrations == InitMigrations /\ [][NextMigrations]_vars

(***************************************************************************)
(* Performance indicators: create_from_report and from_report.             *)
(***************************************************************************)
\* Python's truth value of a value.
Falsy(value) == value \in {PyNone, ""}

\* Faulty variant: on a name that is a parameter and a result, the result
\* takes precedence.
from_report_result_wins(inspection_document, partial_keywords) ==
    LET stdout == inspection_document["job_log"]["stdout"]
        kwargs == Merge(stdout["@parameters"], stdout["@result"])
    IN [error |-> "none", keywords |-> partial_keywords, reached |-> "from_report",
        calls |-> << Merge(partial_keywords, kwargs) >>]

\* from_report: the keywords are the @parameters entries and the @result
\* entries; a name in both raises ValueError.  partial_model(**kwargs)
\* calls the model with the bound keywords and kwargs, kwargs taking
\* precedence (functools.partial).
from_report(inspection_document, partial_keywords) ==
    LET stdout == inspection_document["job_log"]["stdout"]
        kwargs == Merge(stdout["@parameters"], stdout["@result"])
    IN IF DOMAIN stdout["@parameters"] \cap DOMAIN stdout["@result"] # {}
       THEN [error |-> "ValueError", keywords |-> partial_keywords,
             reached |-> "from_report", calls |-> << >>]
       ELSE [error |-> "none", keywords |-> partial_keywords,
             reached |-> "from_report",
             calls |-> << Merge(partial_keywords, kwargs) >>]

\* Faulty variant: script_sha256 stands in only for a version that is
\* missing, not for an empty one (dict.get with a default).
create_from_report_version_default(inspection_document, inspection_run_id) ==
    LET job_log == inspection_document["job_log"]
        stdout == job_log["stdout"]
        usage == IF "usage" \in DOMAIN job_log THEN job_log["usage"] ELSE EmptyObject
        partial_keywords ==
            [k \in BaseFields |->
                CASE k = "inspection_run_id" -> inspection_run_id
                  [] k = "framework" -> Get(stdout, "framework")
                  [] k = "origin" -> inspection_document["specification"]["script"]
                  [] k = "version" -> IF "version" \notin DOMAIN stdout
                                      THEN job_log["script_sha256"]
                                      ELSE stdout["version"]
                  [] k = "overall_score" -> Get(stdout, "overall_score")
                  [] k = "exit_code" -> Get(job_log, "exit_code")
                  [] OTHER -> Get(usage, k)]
    IN IF "version" \notin DOMAIN stdout /\ "script_sha256" \notin DOMAIN job_log
       THEN [error |-> "KeyError", keywords |-> EmptyObject,
             reached |-> "create_from_report", calls |-> << >>]
       ELSE from_report(inspection_document, partial_keywords)

\* create_from_report: binds the base fields, then from_report.
\* job_log["script_sha256"] is looked up only when stdout's version is
\* missing or empty, and raises KeyError when it is missing then.
create_from_report(inspection_document, inspection_run_id) ==
    LET job_log == inspection_document["job_log"]
        stdout == job_log["stdout"]
        usage == IF "usage" \in DOMAIN job_log THEN job_log["usage"] ELSE EmptyObject
        partial_keywords ==
            [k \in BaseFields |->
                CASE k = "inspection_run_id" -> inspection_run_id
                  [] k = "framework" -> Get(stdout, "framework")
                  [] k = "origin" -> inspection_document["specification"]["script"]
                  [] k = "version" -> IF Falsy(Get(stdout, "version"))
                                      THEN job_log["script_sha256"]
                                      ELSE Get(stdout, "version")
                  [] k = "overall_score" -> Get(stdout, "overall_score")
                  [] k = "exit_code" -> Get(job_log, "exit_code")
                  [] OTHER -> Get(usage, k)]
    IN IF Falsy(Get(stdout, "version")) /\ "script_sha256" \notin DOMAIN job_log
       THEN [error |-> "KeyError", keywords |-> EmptyObject,
             reached |-> "create_from_report", calls |-> << >>]
       ELSE from_report(inspection_document, partial_keywords)

\* A call of create_from_report with the document at hand.
call_create_from_report ==
    /\ ~report.called
    /\ LET o == create_from_report(report.document, report.inspection_run_id)
       IN report' = [report EXCEPT !.called = TRUE, !.error = o.error,
                                   !.keywords = o.keywords, !.reached = o.reached,
                                   !.calls = o.calls]
    /\ UNCHANGED <<objects, connected, last, derived0, calls, db,
                   graph, alembic, instances>>

\* An inspection document and the id of its inspection run are at hand.
InitReport ==
    /\ objects = {}
    /\ connected = [a \in Adapters |-> FALSE]
    /\ last = NoCall
    /\ derived0 = [document \in Documents |->
                      get_document_id(CHOOSE cls \in Adapters : TRUE, document)]
    /\ calls = [c \in Callers |-> Idle("")]
    /\ db = EmptyDatabase
    /\ graph = EmptyGraph
    /\ alembic = NoMigration
    /\ instances = Constructed
    /\ \E document \in InspectionDocuments, inspection_run_id \in RowIds :
          report = [NoReport EXCEPT !.document = document,
                                    !.inspection_run_id = inspection_run_id]

NextReport == call_create_from_report

SpecReport == InitReport /\ [][NextReport]_vars

(***************************************************************************)
(* The life of an adapter: __init__, then the calls on the instance.       *)
(***************************************************************************)
\* Faulty variant: RESULT_TYPE is not looked at.
construct_unchecked(cls) ==
    /\ ~instances[cls].constructed
    /\ instances' = [instances EXCEPT
                        ![cls] = [constructed |-> TRUE, prefix |-> CephPrefix(cls)]]
    /\ last' = Call("__init__", cls, None, "")
    /\ UNCHANGED <<objects, connected, derived0, calls, db, graph, alembic, report>>

\* __init__: asserts that RESULT_TYPE is not None, then creates the Ceph
\* handle with RESULT_TYPE as its prefix.
construct(cls) ==
    /\ ~instances[cls].constructed
    /\ IF RESULT_TYPE(cls) = PyNone
       THEN /\ last' = [Call("__init__", cls, None, "") EXCEPT !.error = "AssertionError"]
            /\ UNCHANGED instances
       ELSE /\ instances' = [instances EXCEPT
                               ![cls] = [constructed |-> TRUE, prefix |-> CephPrefix(cls)]]
            /\ last' = Call("__init__", cls, None, "")
    /\ UNCHANGED <<objects, connected, derived0, calls, db, graph, alembic, report>>

\* No adapter has been constructed yet.
InitLifecycle ==
    /\ objects = {}
    /\ connected = [a \in Adapters |-> FALSE]
    /\ last = NoCall
    /\ derived0 = [document \in Documents |->
                      get_document_id(CHOOSE cls \in Adapters : TRUE, document)]
    /\ calls = [c \in Callers |-> Idle("")]
    /\ db = EmptyDatabase
    /\ graph = EmptyGraph
    /\ alembic = NoMigration
    /\ report = NoReport
    /\ instances = [cls \in Classes |-> NoInstance]

\* The calls are those of an instance: of a class that has been constructed.
NextLifecycle ==
    \/ \E cls \in Classes : construct(cls)
    \/ \E self \in Adapters : instances[self].constructed /\ connect(self)
    \/ \E self \in Adapters : instances[self].constructed /\ get_document_listing(self)
    \/ \E self \in Adapters : instances[self].constructed /\ iterate_results(self)
    \/ \E self \in Adapters, document \in Documents :
          instances[self].constructed /\ store_document(self, document)
    \/ \E self \in Adapters, document_id \in DocumentIds :
          instances[self].constructed /\ retrieve_document(self, document_id)
    \/ \E self \in Adapters, document_id \in DocumentIds :
          instances[self].constructed /\ document_exists(self, document_id)

SpecLifecycle == InitLifecycle /\ [][NextLifecycle]_vars

(***************************************************************************)
(* Concurrent callers.  Several callers share one connected adapter and    *)
(* each runs store_document; a call is in three steps: the part that runs  *)
(* in the caller (validation, derivation of the id), the write as the blob *)
(* store processes it, and the return of the call.  The blob store         *)
(* processes one write at a time and replaces the object as a whole.       *)
(***************************************************************************)
InitConcurrent ==
    \E self \in Adapters :
        /\ objects = {}
        /\ connected = [a \in Adapters |-> a = self]
        /\ last = NoCall
        /\ derived0 = [document \in Documents |-> get_document_id(self, document)]
        /\ calls = [c \in Callers |-> Idle(self)]
        /\ db = EmptyDatabase
        /\ graph = EmptyGraph
        /\ alembic = NoMigration
        /\ report = NoReport
        /\ instances = Constructed

\* The caller's call is over with `error`.
Failed(c, error) == [calls EXCEPT ![c].pc = "failed", ![c].error = error]

\* Faulty variant: the derived id is kept in an attribute of the adapter, which
\* the callers share: the calls that have not written yet write under the
\* id derived last.
store_begin_shared_id(c, document) ==
    /\ calls[c].pc = "idle"
    /\ calls' =
          IF RESULT_SCHEMA(document) # {}
          THEN [calls EXCEPT ![c].pc = "raised", ![c].document = document,
                             ![c].error = "SchemaError"]
          ELSE LET derived == get_document_id(calls[c].adapter, document)
               IN IF derived.error # "none"
                  THEN [calls EXCEPT ![c].pc = "raised", ![c].document = document,
                                     ![c].error = derived.error]
                  ELSE [k \in Callers |->
                          IF k = c
                          THEN [calls[k] EXCEPT !.pc = "sending", !.document = document,
                                                !.id = derived.id]
                          ELSE IF calls[k].pc = "sending"
                               THEN [calls[k] EXCEPT !.id = derived.id]
                               ELSE calls[k]]
    /\ UNCHANGED <<objects, connected, last, derived0, db, graph, alembic, report, instances>>

\* store_document up to the call of self.ceph.store_document: the document
\* is validated and its id derived, both in local variables of the call.
store_begin(c, document) ==
    /\ calls[c].pc = "idle"
    /\ calls' =
          IF RESULT_SCHEMA(document) # {}
          THEN [calls EXCEPT ![c].pc = "raised", ![c].document = document,
                             ![c].error = "SchemaError"]
          ELSE LET derived == get_document_id(calls[c].adapter, document)
               IN IF derived.error # "none"
                  THEN [calls EXCEPT ![c].pc = "raised", ![c].document = document,
                                     ![c].error = derived.error]
                  ELSE [calls EXCEPT ![c].pc = "sending", ![c].document = document,
                                     ![c].id = derived.id]
    /\ UNCHANGED <<objects, connected, last, derived0, db, graph, alembic, report, instances>>

\* The blob store processes the caller's write.
ceph_put(c) ==
    /\ calls[c].pc = "sending"
    /\ connected[calls[c].adapter]
    /\ objects' = Put(ObjectKey(CephPrefix(calls[c].adapter), calls[c].id),
                      dumps(calls[c].document))
    /\ calls' = [calls EXCEPT ![c].pc = "written"]
    /\ UNCHANGED <<connected, last, derived0, db, graph, alembic, report, instances>>

\* The write fails before the blob store has processed it.
ceph_unavailable(c) ==
    /\ calls[c].pc = "sending"
    /\ calls' = Failed(c, "StorageUnavailableError")
    /\ UNCHANGED <<objects, connected, last, derived0, db, graph, alembic, report, instances>>

\* The write was processed and its response is lost.
ceph_response_lost(c) ==
    /\ calls[c].pc = "written"
    /\ calls' = [calls EXCEPT ![c].pc = "failed_written",
                              ![c].error = "StorageUnavailableError"]
    /\ UNCHANGED <<objects, connected, last, derived0, db, graph, alembic, report, instances>>

\* self.ceph.store_document has returned: store_document returns the id.
store_return(c) ==
    /\ calls[c].pc = "written"
    /\ calls' = [calls EXCEPT ![c].pc = "returned", ![c].ret_id = calls[c].id]
    /\ UNCHANGED <<objects, connected, last, derived0, db, graph, alembic, report, instances>>

(***************************************************************************)
(* Producers of the build-log cache.  Two producers share one connected    *)
(* cache; each hashes a subject, asks the cache whether the hash exists    *)
(* and, when it does not, computes the analysis and stores its record,     *)
(* with no coordination between the two.                                   *)
(***************************************************************************)
Producers == {"producer-1", "producer-2"}

InitCacheRace ==
    \E self \in Caches :
        /\ objects = {}
        /\ connected = [a \in Adapters |-> a = self]
        /\ last = NoCall
        /\ derived0 = [document \in Documents |-> get_document_id(self, document)]
        /\ calls = [c \in Producers |-> Idle(self)]
        /\ db = EmptyDatabase
        /\ graph = EmptyGraph
        /\ alembic = NoMigration
        /\ report = NoReport
        /\ instances = Constructed

\* The producer hashes its subject and asks documentExists of the hash.
cache_check(c, bytes) ==
    /\ calls[c].pc = "idle"
    /\ \E o \in CephDocumentExists(calls[c].adapter, sha256(bytes)) :
          calls' = [calls EXCEPT ![c].subject = bytes,
                                 ![c].id = sha256(bytes),
                                 ![c].error = o.error,
                                 ![c].pc = IF o.error # "none" THEN "failed"
                                           ELSE IF o.flag THEN "hit" ELSE "miss"]
    /\ UNCHANGED <<objects, connected, last, derived0, db, graph, alembic, report, instances>>

\* Faulty variant: the record is stored under an id made of the whole record,
\* not of the subject's hash alone.
cache_store_begin_by_content(c, reference) ==
    /\ calls[c].pc = "miss"
    /\ LET record == [subject_hash |-> calls[c].id, result_reference |-> reference]
       IN calls' = [calls EXCEPT ![c].pc = "sending", ![c].document = record,
                                 ![c].id = record["subject_hash"] \o "-" \o reference]
    /\ UNCHANGED <<objects, connected, last, derived0, db, graph, alembic, report, instances>>

\* After a miss the producer has computed the analysis `reference` and
\* stores the record; the record has the required shape and its id is its
\* subject_hash.
cache_store_begin(c, reference) ==
    /\ calls[c].pc = "miss"
    /\ LET record == [subject_hash |-> calls[c].id, result_reference |-> reference]
       IN calls' = [calls EXCEPT ![c].pc = "sending", ![c].document = record,
                                 ![c].id = record["subject_hash"]]
    /\ UNCHANGED <<objects, connected, last, derived0, db, graph, alembic, report, instances>>

NextCacheRace ==
    \/ \E c \in Producers, bytes \in Subjects : cache_check(c, bytes)
    \/ \E c \in Producers, reference \in References : cache_store_begin(c, reference)
    \/ \E c \in Producers : ceph_put(c)
    \/ \E c \in Producers : ceph_unavailable(c)
    \/ \E c \in Producers : ceph_response_lost(c)
    \/ \E c \in Producers : store_return(c)

SpecCacheRace == InitCacheRace /\ [][NextCacheRace]_vars

NextConcurrent ==
    \/ \E c \in Callers, document \in Documents : store_begin(c, document)
    \/ \E c \in Callers : ceph_put(c)
    \/ \E c \in Callers : ceph_unavailable(c)
    \/ \E c \in Callers : ceph_response_lost(c)
    \/ \E c \in Callers : store_return(c)

SpecConcurrent == InitConcurrent /\ [][NextConcurrent]_vars

(***************************************************************************)
(* Vocabulary of the properties.                                           *)
(***************************************************************************)
AdapterA == "BuildLogsAnalysesCacheStore"

AdapterB == "OtherResultsStore"

HasHostname(document) ==
    "metadata" \in DOMAIN document /\ "hostname" \in DOMAIN document["metadata"]

\* A call of store_document that returned its id.
StoreSucceeded(call) == call.op = "store_document" /\ call.error = "none"

\* Errors of the blob store that are the caller's to retry.
Transient == {"StorageUnavailableError"}

\* The answers a documentExists call through `self` can return.
ExistsAnswers(self, document_id) ==
    {o.flag : o \in {x \in CephDocumentExists(self, document_id) : x.error = "none"}}

(***************************************************************************)
(* C1 - Validation gate.  A store_document call with a document the schema *)
(* rejects raises SchemaError whose cause is the validation failure, sends *)
(* nothing to the blob store and leaves every object of the bucket (every  *)
(* namespace) as it was.                                                   *)
(***************************************************************************)
C1_ValidationGate ==
    [][(last'.op = "store_document" /\ RESULT_SCHEMA(last'.document) # {})
        => /\ last'.error = "SchemaError"
           /\ last'.cause = RESULT_SCHEMA(last'.document)
           /\ last'.requests = << >>
           /\ objects' = objects]_vars

\* A rejected document that carries an id, handed to a connected adapter
\* whose bucket already holds objects.
C1_Witness ==
    /\ last.op = "store_document"
    /\ last.error = "SchemaError"
    /\ HasHostname(last.document)
    /\ connected[last.adapter]
    /\ objects # {}

(***************************************************************************)
(* C2 - Round trip.  When store_document(d) has returned an id and the     *)
(* next call is retrieve_document of that id on the same adapter, the      *)
(* retrieve does not fail with NotFoundError or NotConnectedError, and the *)
(* document it returns equals d.  (A transient failure of the blob store   *)
(* is the one way the retrieve may not return.)                            *)
(***************************************************************************)
C2_RoundTrip ==
    [][(/\ StoreSucceeded(last)
        /\ last'.op = "retrieve_document"
        /\ last'.adapter = last.adapter
        /\ last'.document_id = last.ret_id)
        => /\ last'.error \in {"none"} \cup Transient
           /\ last'.error = "none" => last'.ret_doc = last.document]_vars

\* A retrieve that returned a schema-valid document.
C2_Witness ==
    /\ last.op = "retrieve_document"
    /\ last.error = "none"
    /\ last.ret_doc \in Documents
    /\ RESULT_SCHEMA(last.ret_doc) = {}
    /\ HasHostname(last.ret_doc)
    /\ last.ret_doc["metadata"]["hostname"] = last.document_id

(***************************************************************************)
(* C3 - Existence after store.  Right after store_document(d) returned,    *)
(* documentExists(deriveId(d)) on the same adapter answers true; an id for *)
(* which it answers true answers true after every further call (the       *)
(* answers are a function of the bucket and the connections, so only the   *)
(* steps that change one of them are looked at); and every documentExists  *)
(* call that returns, returns that answer.                                 *)
(***************************************************************************)
ExistsAfterStore ==
    StoreSucceeded(last)
    => ExistsAnswers(last.adapter,
                     get_document_id(last.adapter, last.document).id) = {TRUE}

ExistsCallAnswers ==
    (last.op = "document_exists" /\ last.error = "none")
    => {last.ret_flag} = ExistsAnswers(last.adapter, last.document_id)

C3_ExistenceAfterStore ==
    [][/\ ExistsAfterStore'
       /\ ExistsCallAnswers'
       /\ \/ UNCHANGED <<objects, connected>>
          \/ \A self \in Adapters, id \in DocumentIds :
                ExistsAnswers(self, id) = {TRUE} => ExistsAnswers(self, id)' = {TRUE}]_vars

\* documentExists answered true.
C3_Witness ==
    /\ last.op = "document_exists"
    /\ last.error = "none"
    /\ last.ret_flag = TRUE

(***************************************************************************)
(* C4 - Idempotent re-store.  When store_document(d) has returned an id    *)
(* and the next call stores the same d through the same adapter, the       *)
(* second call is not refused, returns the same id when it returns, and    *)
(* leaves the bucket exactly as the first call left it.                    *)
(***************************************************************************)
C4_IdempotentRestore ==
    [][(/\ StoreSucceeded(last)
        /\ last'.op = "store_document"
        /\ last'.adapter = last.adapter
        /\ last'.document = last.document)
        => /\ last'.error \in {"none"} \cup Transient
           /\ last'.error = "none" => last'.ret_id = last.ret_id
           /\ objects' = objects]_vars

\* A store that returned and had replaced the very same document.
C4_Witness ==
    /\ StoreSucceeded(last)
    /\ last.replaced = {last.document}

(***************************************************************************)
(* C5 - Namespace isolation.  What an adapter sees under an id (whether    *)
(* the id exists, the document retrieved, whether the id is listed)        *)
(* changes only by a store_document through that same adapter of a         *)
(* document deriving that id: a store through the other adapter never      *)
(* creates, changes or hides it, also when both derive the same id.  And   *)
(* every read through an adapter that returns, returns what its own        *)
(* namespace holds (reads change nothing, so the state after the read      *)
(* shows it).                                                              *)
(***************************************************************************)
ReadsOwnNamespace ==
    last.error = "none"
    => /\ last.op = "retrieve_document"
          => last.ret_doc \in StoredUnder(last.adapter, last.document_id)
       /\ last.op = "document_exists"
          => last.ret_flag = (StoredUnder(last.adapter, last.document_id) # {})
       /\ last.op = "get_document_listing"
          => last.ret_ids = {id \in DocumentIds : StoredUnder(last.adapter, id) # {}}

C5_NamespaceIsolation ==
    [][/\ ReadsOwnNamespace'
       /\ \/ UNCHANGED objects
          \/ \A self \in Adapters, id \in DocumentIds :
                StoredUnder(self, id)' # StoredUnder(self, id)
                => /\ last'.op = "store_document"
                   /\ last'.adapter = self
                   /\ HasHostname(last'.document)
                   /\ last'.document["metadata"]["hostname"] = id]_vars

\* Both adapters hold a document under one id, and not the same document;
\* the last call stored through one of them.
C5_Witness ==
    /\ StoreSucceeded(last)
    /\ \E id \in DocumentIds :
          /\ StoredUnder(AdapterA, id) # {}
          /\ StoredUnder(AdapterB, id) # {}
          /\ StoredUnder(AdapterA, id) # StoredUnder(AdapterB, id)

(***************************************************************************)
(* C6 - The returned id and the key.  A store_document call that returned  *)
(* has returned the document's metadata.hostname, has sent one write whose *)
(* key is the adapter's RESULT_TYPE followed by that id, the bucket holds  *)
(* the document under that key, and retrieve_document of the returned id   *)
(* can return it.                                                          *)
(***************************************************************************)
C6_ReturnedIdIsHostname ==
    StoreSucceeded(last)
    => LET key == ObjectKey(RESULT_TYPE(last.adapter), last.ret_id)
       IN /\ last.ret_id = last.document["metadata"]["hostname"]
          /\ last.requests = << [method |-> "PUT", key |-> key] >>
          /\ ObjectsAt(key) = {[key |-> key, body |-> dumps(last.document)]}
          /\ \E o \in CephRetrieveDocument(last.adapter, last.ret_id) :
                o.error = "none" /\ o.document = last.document

\* A store that returned, into a bucket that holds other objects as well.
C6_Witness ==
    /\ StoreSucceeded(last)
    /\ Cardinality(objects) > 1

C8_StoredDocumentsNeverChange ==
    [][\/ UNCHANGED objects
       \/ \A self \in Adapters, id \in DocumentIds :
             StoredUnder(self, id) # {} => StoredUnder(self, id)' = StoredUnder(self, id)]_vars

(***************************************************************************)
(* C8, amended - Once an adapter's namespace holds a document under an     *)
(* id, the id keeps holding exactly one document, and that document stays  *)
(* the same until a store_document call through the same adapter writes a  *)
(* schema-valid document with the same metadata.hostname, which replaces   *)
(* it (last write wins).  Stores under other ids, stores through other     *)
(* adapters, rejected stores and reads never change it.                    *)
(***************************************************************************)
C8_ChangedOnlyByOverwrite ==
    [][\/ UNCHANGED objects
       \/ \A self \in Adapters, id \in DocumentIds :
             StoredUnder(self, id) # {}
             => \/ StoredUnder(self, id)' = StoredUnder(self, id)
                \/ /\ last'.op = "store_document"
                   /\ last'.adapter = self
                   /\ RESULT_SCHEMA(last'.document) = {}
                   /\ HasHostname(last'.document)
                   /\ last'.document["metadata"]["hostname"] = id
                   /\ last'.requests # << >>
                   /\ StoredUnder(self, id)' = {last'.document}]_vars

\* A store that replaced a different document under the same id, while the
\* same namespace holds a document under another id.
C8_Witness ==
    /\ last.op = "store_document"
    /\ last.replaced # {}
    /\ last.replaced # {last.document}
    /\ \E id \in DocumentIds :
          /\ id # last.document["metadata"]["hostname"]
          /\ StoredUnder(last.adapter, id) # {}

(***************************************************************************)
(* C9 - Last write wins.  A store_document that returned leaves exactly    *)
(* one object under its key, holding the document just stored, also when   *)
(* the key held a different document before.  A store onto an id that      *)
(* holds a different document is never refused (a transient failure of the *)
(* blob store apart), and a retrieve_document of the id right after the    *)
(* second store returns the second document.                               *)
(***************************************************************************)
OneBlobAfterStore ==
    StoreSucceeded(last)
    => LET key == ObjectKey(CephPrefix(last.adapter), last.ret_id)
       IN ObjectsAt(key) = {[key |-> key, body |-> dumps(last.document)]}

C9_LastWriteWins ==
    [][/\ OneBlobAfterStore'
       /\ (/\ StoreSucceeded(last)
           /\ last'.op = "store_document"
           /\ last'.adapter = last.adapter
           /\ last'.document # last.document
           /\ RESULT_SCHEMA(last'.document) = {}
           /\ HasHostname(last'.document)
           /\ last'.document["metadata"]["hostname"] = last.ret_id)
          => /\ last'.error \in {"none"} \cup Transient
             /\ last'.error = "none"
                => last'.ret_id = last.ret_id /\ last'.replaced = {last.document}
       /\ (/\ StoreSucceeded(last)
           /\ last.replaced \notin {{}, {last.document}}
           /\ last'.op = "retrieve_document"
           /\ last'.adapter = last.adapter
           /\ last'.document_id = last.ret_id)
          => /\ last'.error \in {"none"} \cup Transient
             /\ last'.error = "none" => last'.ret_doc = last.document]_vars

\* The second of two different documents with one id has been stored.
C9_Witness ==
    /\ StoreSucceeded(last)
    /\ last.replaced # {}
    /\ last.replaced # {last.document}
    /\ StoredUnder(last.adapter, last.ret_id) = {last.document}

(***************************************************************************)
(* C10 - Malformed document (the claim as stated).  A store_document call  *)
(* with a document that passes the schema but has no metadata.hostname     *)
(* raises MalformedDocumentError, sends nothing to the blob store and      *)
(* leaves the bucket unchanged.                                            *)
(***************************************************************************)
C10_RaisesMalformedDocumentError ==
    [][(/\ last'.op = "store_document"
        /\ RESULT_SCHEMA(last'.document) = {}
        /\ ~HasHostname(last'.document))
        => /\ last'.error = "MalformedDocumentError"
           /\ last'.requests = << >>
           /\ objects' = objects]_vars

(***************************************************************************)
(* C10, amended - A store_document call with a document that passes the    *)
(* schema but has no metadata.hostname fails with the KeyError of          *)
(* get_document_id's lookup (there is no MalformedDocumentError), sends    *)
(* nothing to the blob store and leaves the bucket unchanged.              *)
(***************************************************************************)
C10_RaisesKeyError ==
    [][(/\ last'.op = "store_document"
        /\ RESULT_SCHEMA(last'.document) = {}
        /\ ~HasHostname(last'.document))
        => /\ last'.error = "KeyError"
           /\ last'.requests = << >>
           /\ objects' = objects]_vars

\* A schema-valid document without hostname, handed to a connected adapter
\* whose bucket holds objects.
C10_Witness ==
    /\ last.op = "store_document"
    /\ RESULT_SCHEMA(last.document) = {}
    /\ ~HasHostname(last.document)
    /\ last.error = "KeyError"
    /\ connected[last.adapter]
    /\ objects # {}

(***************************************************************************)
(* C11 - Retrieve of an absent id.  A retrieve_document call through a     *)
(* connected adapter fails with NotFoundError only when the adapter's      *)
(* namespace holds no blob under the id; when it holds none the call never *)
(* returns a document (it fails with NotFoundError, a transient failure of *)
(* the blob store apart); when it holds one the call, when it returns,     *)
(* returns the stored document.  No retrieve, failed or not, changes the   *)
(* bucket.  (The call changes nothing, so the state after it shows what    *)
(* the namespace held.)                                                    *)
(***************************************************************************)
RetrieveOutcome ==
    (last.op = "retrieve_document" /\ connected[last.adapter])
    => LET held == StoredUnder(last.adapter, last.document_id)
       IN /\ last.error = "NotFoundError" => held = {}
          /\ held = {} => last.error \in {"NotFoundError"} \cup Transient
          /\ held # {} => last.error \in {"none"} \cup Transient
          /\ last.error = "none" => last.ret_doc \in held
          /\ last.error # "none" => last.ret_doc = None

C11_RetrieveNotFound ==
    [][/\ RetrieveOutcome'
       /\ last'.op = "retrieve_document" => objects' = objects]_vars

\* NotFoundError for an id that the other namespace holds.
C11_Witness ==
    /\ last.op = "retrieve_document"
    /\ last.error = "NotFoundError"
    /\ \E other \in Adapters \ {last.adapter} :
          StoredUnder(other, last.document_id) # {}

(***************************************************************************)
(* C12 - Connection protocol.  The calls that reach the blob store.        *)
(***************************************************************************)
RemoteReads ==
    {"retrieve_document", "document_exists", "get_document_listing", "iterate_results"}

\* What a call through an adapter without a session does: is_connected
\* answers false; the reads fail with NotConnectedError; store_document
\* fails with NotConnectedError for the documents in `refused` and with the
\* errors in `rejections` for the others; nothing is sent, nothing changes.
BeforeConnect(refused, rejections) ==
    (last'.op # "none" /\ last'.op # "connect" /\ ~connected[last'.adapter])
    => /\ last'.op = "is_connected" => last'.ret_flag = FALSE
       /\ last'.op \in RemoteReads => last'.error = "NotConnectedError"
       /\ last'.op = "store_document"
          => IF last'.document \in refused
             THEN last'.error = "NotConnectedError"
             ELSE last'.error \in rejections
       /\ last'.requests = << >>
       /\ objects' = objects
       /\ connected' = connected

\* A session is opened by a connect call that returned and by nothing else,
\* it is never closed, and with it is_connected answers true and no call
\* fails with NotConnectedError.
AfterConnect ==
    /\ \A self \in Adapters :
          connected'[self] # connected[self]
          => /\ connected'[self]
             /\ last'.op = "connect" /\ last'.adapter = self /\ last'.error = "none"
    /\ (last'.op = "connect" /\ last'.error = "none") => connected'[last'.adapter]
    /\ (last'.op = "connect" /\ last'.error # "none")
       => last'.error = "ConnectionError" /\ connected' = connected
    /\ (last'.op \notin {"none", "connect"} /\ connected[last'.adapter])
       => /\ last'.op = "is_connected" => last'.ret_flag = TRUE
          /\ last'.error # "NotConnectedError"

(***************************************************************************)
(* C12 (the claim as stated).  Through an adapter on which connect() has   *)
(* not yet succeeded, is_connected() is false and every store_document,    *)
(* retrieve_document, documentExists and listing call fails with           *)
(* NotConnectedError without touching the blob store; after connect()      *)
(* succeeded is_connected() is true and the calls are enabled.             *)
(***************************************************************************)
C12_AlwaysNotConnectedError ==
    [][BeforeConnect(Documents, {}) /\ AfterConnect]_vars

(***************************************************************************)
(* C12, amended.  The same, except that store_document checks the document *)
(* before it reaches the blob store: through an adapter without a session  *)
(* it fails with NotConnectedError for a schema-valid document that has a  *)
(* metadata.hostname, and with SchemaError or KeyError (as through a       *)
(* connected adapter) for any other document; in each case nothing is sent *)
(* and the bucket is unchanged.                                            *)
(***************************************************************************)
C12_ConnectionProtocol ==
    [][/\ BeforeConnect({d \in Documents : RESULT_SCHEMA(d) = {} /\ HasHostname(d)},
                        {"SchemaError", "KeyError"})
       /\ AfterConnect]_vars

\* A store through an adapter without a session is refused while the bucket
\* holds objects (stored through the other adapter).
C12_Witness ==
    /\ last.op = "store_document"
    /\ last.error = "NotConnectedError"
    /\ ~connected[last.adapter]
    /\ objects # {}

(***************************************************************************)
(* C13 - Listing completeness.  A get_document_listing call that returned  *)
(* has yielded a finite sequence in which every id that the adapter's      *)
(* namespace holds appears, each exactly once, and nothing else: no id     *)
(* held only by another namespace, no id never stored.  And the id that a  *)
(* store_document call returned is in every listing the adapter can yield  *)
(* right after it.                                                         *)
(***************************************************************************)
HeldIds(self) == {id \in DocumentIds : StoredUnder(self, id) # {}}

C13_ListingComplete ==
    /\ (last.op = "get_document_listing" /\ last.error = "none")
       => /\ {last.ret_listing[i] : i \in DOMAIN last.ret_listing} = HeldIds(last.adapter)
          /\ Len(last.ret_listing) = Cardinality(HeldIds(last.adapter))
          /\ last.ret_ids = HeldIds(last.adapter)
    /\ StoreSucceeded(last)
       => \A o \in CephGetDocumentListing(last.adapter) :
             o.error = "none" => \E i \in DOMAIN o.listing : o.listing[i] = last.ret_id

\* A listing that yielded ids and left out an id that only the other
\* namespace holds.
C13_Witness ==
    /\ last.op = "get_document_listing"
    /\ last.error = "none"
    /\ Len(last.ret_listing) >= 1
    /\ \E other \in Adapters \ {last.adapter} :
          HeldIds(other) \ HeldIds(last.adapter) # {}

(***************************************************************************)
(* C14 - Reads have no effect.  A call of is_connected, documentExists,    *)
(* retrieve_document, get_document_listing or iterate_results, whether it  *)
(* returns or fails, leaves the bucket (every namespace, every key) and    *)
(* the session of every adapter as they were.                              *)
(***************************************************************************)
ReadOperations == RemoteReads \cup {"is_connected"}

C14_ReadsChangeNothing ==
    [][last'.op \in ReadOperations
       => objects' = objects /\ connected' = connected]_vars

\* An iteration over a namespace that holds documents has returned them,
\* while the other namespace holds documents as well.
C14_Witness ==
    /\ last.op = "iterate_results"
    /\ last.error = "none"
    /\ last.ret_results # {}
    /\ \A pair \in last.ret_results : pair[2] \in StoredUnder(last.adapter, pair[1])
    /\ \E other \in Adapters \ {last.adapter} : HeldIds(other) # {}

(***************************************************************************)
(* C15 - Concurrent stores.  With several callers in store_document at     *)
(* once on one adapter, in every interleaving and at every moment:         *)
(* (a) an id under which one caller only has written holds that caller's   *)
(* document, whatever the other callers wrote under other ids; (b) an id   *)
(* under which several callers have written holds exactly one object, the  *)
(* whole document of one of them, and an id holds an object as soon as a   *)
(* write under it was processed; an id nobody wrote under holds nothing.   *)
(* Every call that returns, returns the metadata.hostname of its own       *)
(* document, after its write was processed.                                *)
(***************************************************************************)
\* The caller's write has been processed by the blob store.
Wrote(c) == calls[c].pc \in {"written", "returned", "failed_written"}

\* The callers whose write of a document with metadata.hostname `id`
\* through `self` has been processed.
Writers(self, id) ==
    {c \in Callers : /\ Wrote(c)
                     /\ calls[c].adapter = self
                     /\ calls[c].document["metadata"]["hostname"] = id}

C15_ConcurrentStores ==
    /\ \A self \in Adapters, id \in DocumentIds :
          LET key == ObjectKey(RESULT_TYPE(self), id)
          IN /\ Writers(self, id) = {} => ObjectsAt(key) = {}
             /\ Writers(self, id) # {}
                => /\ Cardinality(ObjectsAt(key)) = 1
                   /\ \E c \in Writers(self, id) :
                         ObjectsAt(key) = {[key |-> key, body |-> dumps(calls[c].document)]}
                   /\ \E c \in Writers(self, id) :
                         StoredUnder(self, id) = {calls[c].document}
    /\ \A c \in Callers :
          calls[c].pc = "returned"
          => /\ Wrote(c)
             /\ calls[c].ret_id = calls[c].document["metadata"]["hostname"]

\* Two callers have stored different documents with one metadata.hostname,
\* and both calls have returned.
C15_Witness ==
    \E c1 \in Callers, c2 \in Callers :
        /\ calls[c1].pc = "returned"
        /\ calls[c2].pc = "returned"
        /\ calls[c1].document # calls[c2].document
        /\ calls[c1].ret_id = calls[c2].ret_id

(***************************************************************************)
(* C16 - No retry.  One store_document call sends at most one write to the *)
(* blob store and changes at most the object under the key of that write.  *)
(* When the write fails transiently, the call fails with that very error   *)
(* (not wrapped in another), returns no id and has sent the one write      *)
(* only; the document may or may not be stored.                            *)
(***************************************************************************)
C16_NoRetry ==
    [][last'.op = "store_document"
       => /\ Len(last'.requests) <= 1
          /\ \A i \in DOMAIN last'.requests : last'.requests[i].method = "PUT"
          /\ objects' # objects
             => /\ Len(last'.requests) = 1
                /\ \A o \in (objects' \ objects) \cup (objects \ objects') :
                      o.key = last'.requests[1].key
          /\ last'.error \in Transient
             => /\ last'.ret_id = ""
                /\ last'.cause = {}
                /\ Len(last'.requests) = 1
          /\ last'.error \notin {"none"} \cup Transient
             => last'.requests = << >> /\ last'.ret_id = ""]_vars

\* A store that failed transiently and whose document is not stored.
C16_Witness ==
    /\ last.op = "store_document"
    /\ last.error \in Transient
    /\ Len(last.requests) = 1
    /\ StoredUnder(last.adapter, last.document["metadata"]["hostname"]) = {}

(***************************************************************************)
(* C17 - Cache guard protocol (BuildLogsAnalysesCacheStore, namespace      *)
(* "buildlogs-analysis-cache").  The namespace holds an entry under a      *)
(* subject hash h only once a record with subject_hash h was stored, and   *)
(* keeps one from then on; a documentExists(h) call that returns answers   *)
(* whether the namespace holds an entry under h, so false for an h never   *)
(* stored.  Right after the record {subject_hash: h, result_reference: r}  *)
(* was stored, documentExists(h) answers true and retrieve_document(h)     *)
(* returns that record, whose result_reference is r.                       *)
(***************************************************************************)
CacheKey(self, h) == ObjectKey(RESULT_TYPE(self), h)

ExistsCallTruthful ==
    (last.op = "document_exists" /\ last.error = "none")
    => last.ret_flag = (ObjectsAt(CacheKey(last.adapter, last.document_id)) # {})

C17_CacheGuard ==
    [][/\ ExistsCallTruthful'
       /\ \A self \in Caches, h \in SubjectHashes :
             /\ (ObjectsAt(CacheKey(self, h)) = {} /\ ObjectsAt(CacheKey(self, h))' # {})
                => /\ last'.op = "store_document"
                   /\ last'.adapter = self
                   /\ CACHE_SCHEMA(last'.document) = {}
                   /\ last'.document["subject_hash"] = h
             /\ ObjectsAt(CacheKey(self, h)) # {} => ObjectsAt(CacheKey(self, h))' # {}
       /\ (/\ StoreSucceeded(last)
           /\ last'.adapter = last.adapter
           /\ last'.document_id = last.document["subject_hash"]
           /\ last'.error = "none")
          => /\ last'.op = "document_exists" => last'.ret_flag = TRUE
             /\ last'.op = "retrieve_document"
                => /\ last'.ret_doc = last.document
                   /\ last'.ret_doc["result_reference"] = last.document["result_reference"]
       /\ (/\ StoreSucceeded(last)
           /\ last'.adapter = last.adapter
           /\ last'.op \in {"document_exists", "retrieve_document"}
           /\ last'.document_id = last.document["subject_hash"])
          => last'.error \in {"none"} \cup Transient]_vars

\* retrieve_document(h) has returned a record with result_reference
\* "analysis-42", from a namespace that holds another entry and lacks a
\* third.
C17_Witness ==
    /\ last.op = "retrieve_document"
    /\ last.adapter = "BuildLogsAnalysesCacheStore"
    /\ last.error = "none"
    /\ last.ret_doc = [subject_hash |-> last.document_id,
                       result_reference |-> "analysis-42"]
    /\ \E h \in SubjectHashes \ {last.document_id} :
          ObjectsAt(CacheKey(last.adapter, h)) # {}
    /\ \E h \in SubjectHashes : ObjectsAt(CacheKey(last.adapter, h)) = {}

(***************************************************************************)
(* C18 - Cache deduplication.  With producers that check and then store    *)
(* without coordination: the cache holds at most one entry per subject     *)
(* hash; producers whose subjects have identical bytes have written the    *)
(* same entry, so that the namespace holds one entry for them; producers   *)
(* whose ids differ have written different entries, each holding a record  *)
(* of its own id; and when two producers both saw documentExists(h) =      *)
(* false and both stored, the namespace holds exactly one entry for h, the *)
(* whole record of one of the producers that stored under h.  The          *)
(* namespace holds as many entries as there are different ids written.     *)
(***************************************************************************)
\* The producers whose record has been written (each of them had seen
\* documentExists answer false).
Cached == {c \in Producers : calls[c].pc \in {"written", "returned", "failed_written"}}

\* The entries the cache holds for the subject of a producer.
EntriesFor(c) ==
    {o \in objects :
        /\ o.key = CacheKey(calls[c].adapter, sha256(calls[c].subject))
        /\ loads(o.body)["subject_hash"] = sha256(calls[c].subject)}

\* The entries of the cache's namespace.
CacheEntries(self) ==
    {o \in objects : \E h \in SubjectHashes : o.key = CacheKey(self, h)}

C18_CacheDeduplication ==
    /\ \A self \in Caches, h \in SubjectHashes :
          Cardinality(ObjectsAt(CacheKey(self, h))) <= 1
    /\ \A self \in Caches :
          /\ objects = CacheEntries(self)
          /\ Cardinality(CacheEntries(self))
                = Cardinality({sha256(calls[c].subject) : c \in Cached})
    /\ \A c1 \in Cached, c2 \in Cached :
          /\ Cardinality(EntriesFor(c1)) = 1
          /\ \E c \in Cached :
                /\ calls[c].id = calls[c1].id
                /\ EntriesFor(c1) = {[key |-> CacheKey(calls[c].adapter, calls[c].id),
                                      body |-> dumps(calls[c].document)]}
          /\ calls[c1].subject = calls[c2].subject => EntriesFor(c1) = EntriesFor(c2)
          /\ calls[c1].id # calls[c2].id => EntriesFor(c1) \cap EntriesFor(c2) = {}
    /\ \A c \in Producers :
          calls[c].pc = "returned" => calls[c].ret_id = sha256(calls[c].subject)

\* Two producers with the same subject both saw no entry, computed
\* different analyses and stored them; the cache holds one entry.
C18_Witness ==
    /\ \A c \in Producers : calls[c].pc = "returned"
    /\ \E c1 \in Producers, c2 \in Producers :
          /\ calls[c1].subject = calls[c2].subject
          /\ calls[c1].document # calls[c2].document
    /\ Cardinality(objects) = 1

(***************************************************************************)
(* Rows of a table that agree on every column of its unique constraint, a  *)
(* NULL agreeing with a NULL.                                              *)
(***************************************************************************)
Agree(table, r1, r2) == \A column \in KeyColumns(table) : r1[column] = r2[column]

HasNull(table, r) == \E column \in KeyColumns(table) : r[column] = NULL

(***************************************************************************)
(* C19 - Package-version de-duplication key.  After any get_or_create      *)
(* operations, no two rows of python_package_version agree on all of       *)
(* (package_name, package_version, python_package_index_id, os_name,       *)
(* os_version, python_version), rows whose package_version or              *)
(* python_package_index_id is NULL included.                               *)
(***************************************************************************)
C19_PackageVersionKeyUnique ==
    \A r1 \in db.rows["python_package_version"],
       r2 \in db.rows["python_package_version"] :
        Agree("python_package_version", r1, r2) => r1 = r2

\* Two sessions were each told by get_or_create that it created the row,
\* and the two rows agree on the whole key, which holds a NULL.
C19_Witness ==
    \E r1 \in db.rows["python_package_version"],
       r2 \in db.rows["python_package_version"] :
        /\ r1["id"] # r2["id"]
        /\ Agree("python_package_version", r1, r2)
        /\ HasNull("python_package_version", r1)
        /\ {db.sessions[s].id : s \in Sessions} = {r1["id"], r2["id"]}
        /\ \A s \in Sessions : db.sessions[s].pc = "idle" /\ ~db.sessions[s].existed

\* What the unique constraint does keep: among the rows of
\* python_package_version without NULL in the key, no two agree on it.
PackageVersionKeyUniqueWithoutNull ==
    \A r1 \in db.rows["python_package_version"],
       r2 \in db.rows["python_package_version"] :
        (Agree("python_package_version", r1, r2) /\ ~HasNull("python_package_version", r1))
        => r1 = r2

(***************************************************************************)
(* C20 - Package-version-entity de-duplication key.  After any             *)
(* get_or_create operations, no two rows of python_package_version_entity  *)
(* agree on all of (package_name, package_version,                         *)
(* python_package_index_id), rows whose package_version or                 *)
(* python_package_index_id is NULL (unresolved or user-supplied packages)  *)
(* included.                                                               *)
(***************************************************************************)
C20_EntityKeyUnique ==
    \A r1 \in db.rows["python_package_version_entity"],
       r2 \in db.rows["python_package_version_entity"] :
        Agree("python_package_version_entity", r1, r2) => r1 = r2

\* Two sessions were each told by get_or_create that it created the entity
\* of a package without resolved version, and the two rows agree on the
\* whole key.
C20_Witness ==
    \E r1 \in db.rows["python_package_version_entity"],
       r2 \in db.rows["python_package_version_entity"] :
        /\ r1["id"] # r2["id"]
        /\ Agree("python_package_version_entity", r1, r2)
        /\ r1["package_version"] = NULL
        /\ {db.sessions[s].id : s \in Sessions} = {r1["id"], r2["id"]}
        /\ \A s \in Sessions : db.sessions[s].pc = "idle" /\ ~db.sessions[s].existed

\* What the unique constraint does keep: among the rows of
\* python_package_version_entity without NULL in the key, no two agree on
\* it.
EntityKeyUniqueWithoutNull ==
    \A r1 \in db.rows["python_package_version_entity"],
       r2 \in db.rows["python_package_version_entity"] :
        (/\ Agree("python_package_version_entity", r1, r2)
         /\ ~HasNull("python_package_version_entity", r1))
        => r1 = r2

(***************************************************************************)
(* C21.  Cascade delete: the DELETE of a row removes the row and every row *)
(* that refers to it through a foreign key, directly or through other      *)
(* rows, in every table (the performance-indicator tables that refer to    *)
(* inspection_run included), removes no other row, and leaves no row that  *)
(* refers to a missing parent.                                             *)
(***************************************************************************)
\* No row refers to a row that is not there.
NoDangling ==
    \A fk \in ForeignKeys : \A r \in graph.rows[fk.table] :
        r[fk.column] # NULL => Ref(fk.parent, r[fk.column]) \in AllRows

C21_CascadeDelete ==
    [][(graph' # graph /\ graph'.statement.op = "delete")
          => LET root == Ref(graph'.statement.table, graph'.statement.id)
                 dependants == Closure({root}, {"CASCADE", "NO ACTION"})
             IN /\ AllRows' = AllRows \ dependants
                /\ NoDangling']_vars

\* What does hold: a DELETE that succeeds removes the row and all that refer
\* to it, and nothing else; one that fails removes nothing.
CascadeDeleteWhereDeclared ==
    [][(graph' # graph /\ graph'.statement.op = "delete")
          => LET root == Ref(graph'.statement.table, graph'.statement.id)
                 dependants == Closure({root}, {"CASCADE", "NO ACTION"})
             IN /\ IF graph'.statement.error = "none"
                   THEN AllRows' = AllRows \ dependants
                   ELSE AllRows' = AllRows
                /\ NoDangling']_vars

\* An inspection run with a performance indicator was to be deleted, and the
\* statement failed.
C21_Witness ==
    /\ graph.statement.op = "delete"
    /\ graph.statement.error = "IntegrityError"
    /\ \E r \in graph.rows["pi_matmul"] :
          Ref("inspection_run", r["inspection_run_id"])
              \in Closure({Ref(graph.statement.table, graph.statement.id)}, {"CASCADE"})

(***************************************************************************)
(* C22.  Migrations are reversible: for each of the two revisions, a run   *)
(* of upgrade() followed by a run of downgrade(), from the indexes the     *)
(* revision expects, runs through and leaves the indexes that were there   *)
(* before the upgrade (same names, same tables, same columns in order);    *)
(* and downgrade() followed by upgrade() leaves those of the upgraded      *)
(* database.                                                               *)
(***************************************************************************)
\* The last two runs were of the same revision, in opposite directions.
RoundTrip ==
    /\ alembic.running = NoRun
    /\ alembic.done # NoRun
    /\ alembic.previous.revision = alembic.done.revision
    /\ alembic.previous.direction # alembic.done.direction

C22_MigrationsReversible ==
    /\ alembic.error = "none"
    /\ RoundTrip => alembic.indexes = alembic.previous.before

\* Each revision went up and down again, and b91c11e75551 down and up again.
C22_Witness ==
    /\ RoundTrip
    /\ alembic.done.revision = "b91c11e75551"
    /\ alembic.done.direction = "upgrade"
    /\ alembic.indexes # alembic.done.before

(***************************************************************************)
(* C26.  The migrations are well-sequenced: in a run of upgrade() from the *)
(* indexes downgrade() leaves, and in a run of downgrade() from the        *)
(* indexes upgrade() leaves, every drop_index is of an index that exists   *)
(* at that point and every create_index of a name that does not; for       *)
(* b91c11e75551 as for 79e1d320db3d.                                       *)
(***************************************************************************)
C26_WellSequenced ==
    [][(alembic' # alembic /\ alembic.running # NoRun)
          => LET o == Operations(alembic.running.revision,
                                 alembic.running.direction)[alembic.pc + 1]
             IN /\ o.op = "drop_index"
                      => \E x \in alembic.indexes : x.name = o.name /\ x.table = o.table
                /\ o.op = "create_index"
                      => \A x \in alembic.indexes : x.name # o.name]_vars

\* Every step of upgrade() and then every step of downgrade() of
\* b91c11e75551 has run.
C26_Witness ==
    /\ alembic.running = NoRun
    /\ alembic.done.revision = "b91c11e75551"
    /\ alembic.done.direction = "downgrade"
    /\ alembic.previous.revision = "b91c11e75551"
    /\ alembic.previous.direction = "upgrade"
    /\ alembic.version = "1fbd52a03c73"

(* Vocabulary of the claims on performance indicators.                     *)
Parameters == report.document["job_log"]["stdout"]["@parameters"]

Results == report.document["job_log"]["stdout"]["@result"]

Collision == DOMAIN Parameters \cap DOMAIN Results # {}

\* The model was called once, with every parameter and every result as a
\* keyword.
CalledOnceWithAll ==
    /\ Len(report.calls) = 1
    /\ \A name \in DOMAIN Parameters :
          name \in DOMAIN report.calls[1] /\ report.calls[1][name] = Parameters[name]
    /\ \A name \in DOMAIN Results :
          name \in DOMAIN report.calls[1] /\ report.calls[1][name] = Results[name]

(***************************************************************************)
(* C23 (the claim as stated).  create_from_report of a document in which a *)
(* name is both a parameter and a result raises ValueError and does not    *)
(* call the model; of a document in which no name is, it calls the model   *)
(* exactly once, with every parameter and every result as a keyword.       *)
(***************************************************************************)
C23_AlwaysValueError ==
    report.called
        => /\ Collision => (report.error = "ValueError" /\ report.calls = << >>)
           /\ ~Collision => CalledOnceWithAll

(***************************************************************************)
(* C23, amended.  from_report of a document in which a name is both a      *)
(* parameter and a result raises ValueError and does not call the model;   *)
(* of any other document it calls the model exactly once, with every       *)
(* parameter and every result as a keyword.  create_from_report does the   *)
(* same whenever it gets to from_report; it does not when the document has *)
(* neither a non-empty stdout version nor script_sha256: it then raises    *)
(* KeyError, collision or not, and does not call the model.                *)
(***************************************************************************)
C23_CollisionRejected ==
    report.called
        => /\ report.reached = "from_report"
                => /\ Collision => (report.error = "ValueError" /\ report.calls = << >>)
                   /\ ~Collision => (report.error = "none" /\ CalledOnceWithAll)
           /\ report.reached # "from_report"
                => /\ report.error = "KeyError"
                   /\ report.calls = << >>
                   /\ Falsy(Get(report.document["job_log"]["stdout"], "version"))
                   /\ "script_sha256" \notin DOMAIN report.document["job_log"]
           /\ Collision => report.calls = << >>

\* A document with a name in both, and with script_sha256, was rejected by
\* from_report.
C23_Witness ==
    /\ report.called
    /\ Collision
    /\ report.reached = "from_report"
    /\ report.error = "ValueError"
    /\ "script_sha256" \in DOMAIN report.document["job_log"]

(***************************************************************************)
(* C27.  The version create_from_report sets: job_log.stdout.version when  *)
(* that is present and not empty, job_log.script_sha256 otherwise.         *)
(* script_sha256 is needed in the second case only: without it the call    *)
(* raises an error there, and goes through where stdout has a version.     *)
(***************************************************************************)
C27_Version ==
    report.called
        => LET job_log == report.document["job_log"]
               stdout == job_log["stdout"]
           IN IF "version" \in DOMAIN stdout /\ stdout["version"] # ""
              THEN /\ report.reached = "from_report"
                   /\ report.keywords["version"] = stdout["version"]
              ELSE IF "script_sha256" \in DOMAIN job_log
              THEN /\ report.reached = "from_report"
                   /\ report.keywords["version"] = job_log["script_sha256"]
              ELSE /\ report.error = "KeyError"
                   /\ report.calls = << >>

\* A document whose stdout has an empty version, and which has
\* script_sha256, got the digest as its version.
C27_Witness ==
    /\ report.called
    /\ Get(report.document["job_log"]["stdout"], "version") = ""
    /\ "script_sha256" \in DOMAIN report.document["job_log"]
    /\ report.error = "none"
    /\ report.keywords["version"] = report.document["job_log"]["script_sha256"]

(***************************************************************************)
(* C28.  The base fields are not overridden: for every field that          *)
(* create_from_report binds (inspection_run_id, framework, origin,         *)
(* version, overall_score, exit_code, the ru_* statistics), the value the  *)
(* model is called with is the one create_from_report computed, whatever   *)
(* the names of the @parameters and @result entries.                       *)
(***************************************************************************)
C28_BaseFieldsKept ==
    (report.called /\ Len(report.calls) = 1)
        => \A k \in BaseFields : report.calls[1][k] = report.keywords[k]

\* The model was called with a version that is an @parameters entry, not
\* the version create_from_report computed.
C28_Witness ==
    /\ report.called
    /\ Len(report.calls) = 1
    /\ "version" \in DOMAIN Parameters
    /\ report.calls[1]["version"] = Parameters["version"]
    /\ report.calls[1]["version"] # report.keywords["version"]

(***************************************************************************)
(* C30.  No None for a column that is not nullable: the keywords with      *)
(* which the model is called have a value other than None for version,     *)
(* exit_code and every ru_* statistic, for every document that             *)
(* create_from_report accepts.                                             *)
(***************************************************************************)
\* The columns of PerformanceIndicatorBase declared nullable=False.
NonNullable == {"version", "exit_code"} \cup RuFields

C30_NonNullableSet ==
    (report.called /\ Len(report.calls) = 1)
        => \A k \in NonNullable : report.calls[1][k] # PyNone

\* A document without job_log.usage was accepted and the model called with
\* None for ru_utime.
C30_Witness ==
    /\ report.called
    /\ report.error = "none"
    /\ Len(report.calls) = 1
    /\ "usage" \notin DOMAIN report.document["job_log"]
    /\ "exit_code" \in DOMAIN report.document["job_log"]
    /\ report.calls[1]["ru_utime"] = PyNone

(***************************************************************************)
(* C24.  One namespace per adapter: an instance exists only of a class     *)
(* whose RESULT_TYPE is not None (the construction from a class that       *)
(* leaves it None fails and creates no Ceph handle), its handle has that   *)
(* RESULT_TYPE as prefix, and every request any call of the instance sends *)
(* to the blob store is for a key of that prefix.                          *)
(***************************************************************************)
\* The keys of a namespace: the prefix itself (a listing) and the keys of
\* the ids under it.
KeysUnder(prefix) == {prefix} \cup {ObjectKey(prefix, id) : id \in DocumentIds}

C24_OneNamespace ==
    /\ \A cls \in Classes :
          instances[cls].constructed
              => /\ RESULT_TYPE(cls) # PyNone
                 /\ instances[cls].prefix = RESULT_TYPE(cls)
    /\ (last.op = "__init__" /\ RESULT_TYPE(last.adapter) = PyNone)
          => /\ last.error = "AssertionError"
             /\ instances[last.adapter] = NoInstance
    /\ last.op \notin {"none", "__init__"}
          => /\ instances[last.adapter].constructed
             /\ \A i \in DOMAIN last.requests :
                   last.requests[i].key \in KeysUnder(instances[last.adapter].prefix)

\* The construction from the base class has failed, and both subtypes have
\* their instance, one of which has just listed and read its results.
C24_Witness ==
    /\ \A cls \in Adapters : instances[cls].constructed
    /\ ~instances["ResultStorageBase"].constructed
    /\ last.op = "iterate_results"
    /\ Len(last.requests) > 1

(***************************************************************************)
(* C25.  Order of the checks of store_document: the schema first, the id   *)
(* second, the blob store last.  A document that the schema rejects fails  *)
(* with SchemaError also when it has no metadata.hostname; one that passes *)
(* the schema and has no metadata.hostname fails with the error of the     *)
(* derivation; and the blob store is reached (a request sent, an object    *)
(* changed, or its own error raised) only with a document that passed      *)
(* both.                                                                   *)
(***************************************************************************)
C25_CheckOrder ==
    [][last'.op = "store_document"
        => LET valid == RESULT_SCHEMA(last'.document) = {}
               derivable == HasHostname(last'.document)
           IN /\ ~valid => last'.error = "SchemaError"
              /\ (valid /\ ~derivable) => last'.error = "KeyError"
              /\ (\/ last'.requests # << >>
                  \/ objects' # objects
                  \/ last'.error \in {"none", "NotConnectedError",
                                      "StorageUnavailableError"})
                    => (valid /\ derivable)]_vars

\* A document that the schema rejects and that has no metadata.hostname was
\* handed to a connected adapter, and failed with SchemaError.
C25_Witness ==
    /\ last.op = "store_document"
    /\ RESULT_SCHEMA(last.document) # {}
    /\ ~HasHostname(last.document)
    /\ last.error = "SchemaError"
    /\ connected[last.adapter]

(***************************************************************************)
(* C29.  Both sides of the relationships between inspection runs and       *)
(* software environments agree: an inspection run r is in                  *)
(* e.inspection_runs_run exactly when r.run_software_environment is e      *)
(* (r.run_software_environment_id = e.id), and in e.inspection_runs_build  *)
(* exactly when r.build_software_environment is e.                         *)
(***************************************************************************)
C29_RelationshipsAgree ==
    \A r \in graph.rows["inspection_run"], e \in graph.rows["software_environment"] :
        /\ r \in inspection_runs_run(e)
              <=> (e \in run_software_environment(r)
                   /\ r["run_software_environment_id"] = e["id"])
        /\ r \in inspection_runs_build(e)
              <=> (e \in build_software_environment(r)
                   /\ r["build_software_environment_id"] = e["id"])

\* An inspection run that ran in one environment and was built in another
\* is listed among the runs that ran in the environment it was built in.
C29_Witness ==
    \E r \in graph.rows["inspection_run"], e \in graph.rows["software_environment"] :
        /\ r \in inspection_runs_run(e)
        /\ e \notin run_software_environment(r)
        /\ e \in build_software_environment(r)
        /\ run_software_environment(r) # {}

====
